---- MODULE Spec2Model ----
(***************************************************************************)
(* ramen, Win32 backend: the per-window event bridge.                      *)
(*                                                                         *)
(* Two threads are modelled: the thread that calls spawn_window and then   *)
(* owns the WindowImpl ("app": it polls events and issues commands; the    *)
(* &mut self receiver of swap_events serialises every other use of the     *)
(* handle with the poll), and the window thread spawned by spawn_window    *)
(* ("wt": CreateWindowExW, the publish of the result, the GetMessageW      *)
(* loop and window_proc).                                                  *)
(***************************************************************************)
EXTENDS Integers, Sequences, FiniteSets, TLC

\* Capacity of each event buffer (imp.rs:35 sets 4096; the model scales it
\* down, every formula below is stated for an arbitrary capacity).
MAX_EVENTS_PER_SWAP == 2

\* Outer widths and heights a WM_WINDOWPOSCHANGING notification carries, and
\* the frame sizes adjust_window_for_dpi returns.
OuterSizes == {0, 1}
FrameSizes == {0, 1}

\* Events the window thread may produce in one behaviour: enough to fill a
\* buffer and block the next push.
MaxEvents == MAX_EVENTS_PER_SWAP + 1

\* Threads that run spawn_window's thread function with the same class name.
NumSpawners == 2
Spawners == 1..NumSpawners

\* Wide strings are sequences of code units, NUL terminates.
NUL == 0

\* Titles given to set_title_async ("", "X", and one starting with NUL) and
\* to set_title ("Y"); the builder's title.
AsyncTitles == {<<>>, <<88>>, <<NUL, 88>>}
SyncTitles == {<<89>>}
BuilderTitle == <<97>>

\* The cursor given to set_cursor and set_cursor_async (no resource: NULL).
Cursors == {"Blank"}

\* Posted cursor and style commands the caller lets queue up.
MaxPosted == 1

\* Addresses the allocator hands out for title buffers; also the number of
\* title messages the caller lets queue up.
MaxBufs == 2
BufIds == 1..MaxBufs

\* Input messages one behaviour handles.
MaxInputs == 2

\* The LazyCell statics of imp.rs.
Statics == {"CLASS_REGISTRY_LOCK", "WIN32"}

VARIABLES
    appPc,              \* position of the spawning / handle-owning thread
    wtPc,               \* position of the window thread
    recv,               \* spawn_window: Mutex<Option<Result<WindowImpl, Error>>>
    recvMutex,          \* holder of recv's mutex
    hwnd,               \* result of CreateWindowExW
    createError,        \* create_params.error is Some
    evMutex,            \* holder of ev_buf_sync's mutex
    ev_buf_sync,        \* the bool inside the mutex: "the condvar should be pinged"
    ev_buf_is_primary,
    ev_buf_primary,
    ev_buf_secondary,
    is_focused,
    is_maximized,
    is_minimized,
    client_area_size,
    wtMsg,              \* message window_proc is handling (its continuation)
    pushArg,            \* the `events` slice of the push_events call in progress
    sentMsg,            \* message a SendMessageW caller is blocked on
    \* history: no action reads it to decide the program state (nextSeq also
    \* caps the number of events of a behaviour at MaxEvents)
    nextSeq,            \* events created so far
    pushedLog,          \* events whose push_events call has returned, in order
    sincePoll,          \* ... of these, the ones pushed since the last swap
    view,               \* slice events() returned right after the last swap
    polled,             \* sincePoll as it was when the last swap completed
    delivered,          \* concatenation of the batches exposed so far
    firstBatches,       \* the first two non-empty batches exposed
    waited,             \* sequence numbers of the events whose push has waited
    \* teardown and the window thread's message queue
    destroy_flag,       \* WindowImplData::destroy_flag (AtomicBool)
    class_marker,       \* the class's extra bytes hold HOOKPROC_MARKER
    posted,             \* messages posted to the window, oldest first
    quitPending,        \* PostQuitMessage has been called, WM_QUIT not yet retrieved
    \* several window threads using one class name (per thread: functions on Spawners)
    class_registry_lock,        \* holder of CLASS_REGISTRY_LOCK (0: free)
    class_registered,           \* GetClassInfoExW finds the class
    register_calls,             \* calls of RegisterClassExW so far
    class_created_this_thread,
    cpc,                        \* position of each window thread
    chwnd,                      \* each thread's window
    cflag,                      \* each window's destroy flag
    \* WindowImpl::execute: the call in progress
    fOpt,               \* the Option<Box<dyn FnOnce()>> the message points to
    result,             \* the MaybeUninit<T> the closure writes f's result to
    fRuns,              \* history: how many times f has run
    \* window title
    title,              \* the window text (code units, without the terminator)
    sentText,           \* the &str argument of the set_title call in progress
    heap,               \* the Vec<WCHAR> buffers set_title_async has forgotten
    settled,            \* history: the argument of the set_title call that has
                        \* returned, while no title command has followed it
    \* activation messages
    activated,          \* history: window_proc has handled WM_ACTIVATE / WM_ACTIVATEAPP
    \* the other fields of WindowImplData, and the commands that reach them
    style,              \* window::Style (the resizable bit)
    current_dpi,
    close_reason,       \* Option<CloseReason>
    cursor,             \* HCURSOR: the shared cursor loaded for a resource, or NULL
    sentW,              \* wparam of the message a SendMessageW caller is blocked on
    \* inner size
    is_dpi_logical,
    sentSize,           \* the Size that lparam of RAMEN_WM_SETINNERSIZE points to
    out_size,           \* inner_size(): the MaybeUninit<Size> the arm writes to
    out_scale,          \* inner_size(): the MaybeUninit<Scale>
    supplied,           \* history: variant of the size most recently supplied
    \* push_events calls
    pushCalls,          \* history: the non-empty slices of the calls that have returned
    \* keyboard
    f4_down,            \* the F4 key is held (its key-down was a system key-down)
    keystrokes,         \* history: system key-downs of F4 with Alt held so far
    \* round trip of the inner size
    requestedSize,      \* history: the size of the set_inner_size call that has
                        \* returned, while no position notification and no
                        \* other size command has followed it
    \* the native window, as the style commands see it
    gwl_style,          \* GWL_STYLE of the window: the set of its WS_ bits
    close_button,       \* the SC_CLOSE item of the system menu is enabled
    shown,              \* history: the argument of the last set_visible applied
    sentControls,       \* history: the argument of the set_controls call in progress
    \* input messages (builds with the "input" feature)
    lastInput,          \* history: the last input message handled and its event
    inputCount,         \* history: input messages handled so far
    \* LazyCell statics of the process
    cells,              \* of each static: its Once, its init closure, its pointer
    callers             \* of each thread: where it is in get(), what get() returned

progVars == <<appPc, wtPc, recv, recvMutex, hwnd, createError, evMutex,
              ev_buf_sync, ev_buf_is_primary, ev_buf_primary, ev_buf_secondary,
              is_focused, is_maximized, is_minimized, client_area_size,
              wtMsg, pushArg, sentMsg>>
histVars == <<nextSeq, pushedLog, sincePoll, view, polled, delivered, firstBatches,
              waited>>
lifeVars == <<destroy_flag, class_marker, posted, quitPending>>
classVars == <<class_registry_lock, class_registered, register_calls,
               class_created_this_thread, cpc, chwnd, cflag>>
execVars == <<fOpt, result, fRuns>>
titleVars == <<title, sentText, heap, settled>>
cmdVars == <<execVars, titleVars>>
actVars == <<activated>>
fieldVars == <<style, current_dpi, close_reason, cursor, sentW>>
sizeVars == <<is_dpi_logical, sentSize, out_size, out_scale, supplied>>
grpVars == <<pushCalls>>
keyVars == <<f4_down, keystrokes>>
rtVars == <<requestedSize>>
styleVars == <<gwl_style, close_button, shown, sentControls>>
lateVars == <<lastInput, inputCount, cells, callers>>
newVars == <<actVars, fieldVars, sizeVars, grpVars, keyVars, rtVars, styleVars, lateVars>>
extVars == <<lifeVars, classVars, cmdVars, newVars>>
vars == <<progVars, histVars, extVars>>

spawnVars == <<recv, recvMutex, hwnd, createError>>
bufVars   == <<ev_buf_sync, ev_buf_is_primary, ev_buf_primary, ev_buf_secondary>>
flagVars  == <<is_focused, is_maximized, is_minimized, client_area_size>>

NoMsg == [kind |-> "none", a |-> 0, b |-> 0]

BASE_DPI == 96

\* Size: Logical(w, h) or Physical(w, h).  A Scale dpi / BASE_DPI is kept
\* as the pair <<dpi, BASE_DPI>>.
Logical(w, h) == [v |-> "Logical", w |-> w, h |-> h]
Physical(w, h) == [v |-> "Physical", w |-> w, h |-> h]

Scale(dpi) == <<dpi, BASE_DPI>>

\* Size::as_physical: Logical is multiplied by the scale and truncated.
as_physical(size, scale) ==
    IF size.v = "Logical"
      THEN <<(size.w * scale[1]) \div scale[2], (size.h * scale[1]) \div scale[2]>>
      ELSE <<size.w, size.h>>

\* Size::to_logical, exact for the scales of the model (dpi = BASE_DPI).
to_logical(size, scale) ==
    IF size.v = "Logical"
      THEN size
      ELSE Logical((size.w * scale[2]) \div scale[1], (size.h * scale[2]) \div scale[1])

\* The builder's inner_size (Logical by default), and the sizes given to
\* set_inner_size.
NoSize == [v |-> "none", w |-> 0, h |-> 0]

BuilderSize == Logical(1, 1)
SuppliedSizes == {Physical(2, 1), Logical(1, 1)}

\* What an uninitialised Size or Scale on the caller's stack may hold.
UninitSizes == {Logical(0, 0), Physical(0, 0)}
UninitScale == <<0, BASE_DPI>>

\* `cursor as u32` (repr(u32), Arrow = 0) and the transmute back.
CursorAsU32(c) ==
    CASE c = "Arrow" -> 0 [] c = "Blank" -> 1 [] c = "Cross" -> 2 [] c = "Hand" -> 3

CursorFromU32(n) == CHOOSE c \in {"Arrow", "Blank", "Cross", "Hand"} : CursorAsU32(c) = n

cursor_to_int_resource(c) ==
    CASE c = "Arrow" -> "IDC_ARROW" [] c = "Blank" -> "NULL"
      [] c = "Cross" -> "IDC_CROSS" [] c = "Hand" -> "IDC_HAND"

\* LoadImageW(NULL, rsrc, IMAGE_CURSOR, .., LR_SHARED): the handle of the
\* shared system cursor, named here by its resource; NULL without resource.
LoadCursorImage(rsrc) == rsrc

\* Option<T>: None, or Some(x).
None == <<>>
Some(x) == <<x>>

\* No input message has been handled yet.
NoInput == [kind |-> "none", wparam |-> 0, lparam |-> <<0, 0>>, drawn |-> <<>>, event |-> None]

\* Pointers are numbers: the null pointer is 0 and the box allocated for
\* the value of the n-th run of an initialiser is at n.
NullPtr == 0

\* LazyCell::new(init): the closure is there, the pointer is null, the Once
\* is new.  runs counts the calls of the closure (history).
LazyCell_new == [once |-> "INCOMPLETE", init |-> Some("f"), ptr |-> NullPtr, runs |-> 0]

\* A thread that is not inside get(); got[c] is the pointer behind the
\* reference its last get() of the static c returned, if it has called it.
NotCalling == [pc |-> "idle", cell |-> "none", got |-> [c \in Statics |-> None]]

\* window::Controls
Controls(minimize, maximize, close) ==
    [minimize |-> minimize, maximize |-> maximize, close |-> close]

\* Controls::enabled(), the builder's default.
Controls_enabled == Controls(TRUE, TRUE, TRUE)

AllControls == {Controls(mi, ma, cl) : mi \in BOOLEAN, ma \in BOOLEAN, cl \in BOOLEAN}

\* The values of Option<Controls>.
ControlsOptions == {None} \cup {Some(c) : c \in AllControls}

\* style_as_win32: the style as the set of the WS_ bits that are set
\* (WS_OVERLAPPED is 0).
style_as_win32(st) ==
    (IF st.borderless THEN {"WS_POPUP", "WS_THICKFRAME"} ELSE {"WS_BORDER", "WS_CAPTION"})
    \cup (IF st.resizable THEN {"WS_THICKFRAME"} ELSE {})
    \cup (IF st.visible THEN {"WS_VISIBLE"} ELSE {})
    \cup (IF st.controls # None
            THEN (IF st.controls[1].minimize THEN {"WS_MINIMIZEBOX"} ELSE {})
                 \cup (IF st.controls[1].maximize THEN {"WS_MAXIMIZEBOX"} ELSE {})
                 \cup {"WS_SYSMENU"}
            ELSE {})

\* update_window_style: GWL_STYLE after set_window_data(hwnd, GWL_STYLE, dword).
update_window_style(st) == style_as_win32(st)

----------------------------------------------------------------------------
(* Events.  An Event is modelled as a record: its kind, two integer        *)
(* payload fields, and the position `seq` it has in the order of creation  *)
(* (history: it lets the formulas tell two equal payloads apart).          *)

BoolInt(b) == IF b THEN 1 ELSE 0

Ev(seq, kind, a, b) == [seq |-> seq, kind |-> kind, a |-> a, b |-> b]

Payload(e) == <<e.kind, e.a, e.b>>

Payloads(s) == [i \in 1..Len(s) |-> Payload(s[i])]

Seqs(s) == [i \in 1..Len(s) |-> s[i].seq]

\* Number the payloads of a batch from `from` on.
Stamp(from, ps) ==
    [i \in 1..Len(ps) |->
       IF Len(ps[i]) = 4
         THEN [seq |-> from + i - 1, kind |-> ps[i][1], a |-> ps[i][2], b |-> ps[i][3],
               v |-> ps[i][4]]
         ELSE Ev(from + i - 1, ps[i][1], ps[i][2], ps[i][3])]

\* Event::Resize((size, scale)): a and b are the size, v its variant.
Resize(size) == <<"Resize", size.w, size.h, size.v>>

----------------------------------------------------------------------------
(* FixedVec<T, N>                                                          *)

\* Fault: the capacity test lets one item too many in.
FixedVec_fits_offByOne(buf, items) == Len(buf) + Len(items) <= MAX_EVENTS_PER_SWAP + 1

\* The test of push_many: self.len + items.len() <= N
FixedVec_fits(buf, items) == Len(buf) + Len(items) <= MAX_EVENTS_PER_SWAP

\* Fault: the items are copied to the front of the array.
FixedVec_push_many_prepend(buf, items) == IF FixedVec_fits(buf, items) THEN items \o buf ELSE buf

\* The contents after push_many (it returns FixedVec_fits).
FixedVec_push_many(buf, items) == IF FixedVec_fits(buf, items) THEN buf \o items ELSE buf

\* Fault: clear leaves the length as it is.
FixedVec_clear_keeps(buf) == buf

FixedVec_clear(buf) == <<>>

----------------------------------------------------------------------------
(* sync::condvar_notify1: a thread waiting on the condition variable (at   *)
(* `waiting`) is moved to where it re-locks the mutex (`woken`); with no   *)
(* waiter the notification is lost.                                        *)

\* Fault: the notification is never delivered.
condvar_notify1_lost(pc, waiting, woken) == pc

condvar_notify1(pc, waiting, woken) == IF pc = waiting THEN woken ELSE pc

----------------------------------------------------------------------------
(* WindowImpl::events                                                      *)

\* Fault: events() reads the buffer the pusher writes to.
events_activeSide == IF ev_buf_is_primary THEN ev_buf_primary ELSE ev_buf_secondary

events == IF ev_buf_is_primary THEN ev_buf_secondary ELSE ev_buf_primary

\* The buffer push_events appends to.
ActiveBuf == IF ev_buf_is_primary THEN ev_buf_primary ELSE ev_buf_secondary

----------------------------------------------------------------------------
Init ==
    /\ appPc = "start"
    /\ wtPc = "none"
    /\ recv = "None"
    /\ recvMutex = "free"
    /\ hwnd = "unset"
    /\ createError = FALSE
    /\ evMutex = "free"
    /\ ev_buf_sync = FALSE
    /\ ev_buf_is_primary = TRUE
    /\ ev_buf_primary = <<>>
    /\ ev_buf_secondary = <<>>
    /\ is_focused = FALSE
    /\ is_maximized = FALSE
    /\ is_minimized = FALSE
    /\ client_area_size = as_physical(BuilderSize, Scale(BASE_DPI))
    /\ wtMsg = NoMsg
    /\ pushArg = <<>>
    /\ sentMsg = "none"
    /\ nextSeq = 0
    /\ pushedLog = <<>>
    /\ sincePoll = <<>>
    /\ view = <<>>
    /\ polled = <<>>
    /\ delivered = <<>>
    /\ firstBatches = <<>>
    /\ waited = {}
    /\ destroy_flag = FALSE
    /\ class_marker = FALSE
    /\ posted = <<>>
    /\ quitPending = FALSE
    /\ class_registry_lock = 0
    /\ class_registered = FALSE
    /\ register_calls = 0
    /\ class_created_this_thread = [t \in Spawners |-> FALSE]
    /\ cpc = [t \in Spawners |-> "class_lock"]
    /\ chwnd = [t \in Spawners |-> "unset"]
    /\ cflag = [t \in Spawners |-> FALSE]
    /\ fOpt = "None"
    /\ result = "uninit"
    /\ fRuns = 0
    /\ title = BuilderTitle
    /\ sentText = <<>>
    /\ heap = [id \in BufIds |-> [live |-> FALSE, text |-> <<>>]]
    /\ settled = {}
    /\ activated = FALSE
    /\ style = [borderless |-> FALSE, resizable |-> TRUE, visible |-> TRUE,
                controls |-> Some(Controls_enabled)]
    /\ current_dpi = BASE_DPI
    /\ close_reason = "None"
    /\ cursor = LoadCursorImage(cursor_to_int_resource("Arrow"))
    /\ sentW = 0
    /\ is_dpi_logical = (BuilderSize.v = "Logical")
    /\ sentSize = BuilderSize
    /\ out_size = Physical(0, 0)
    /\ out_scale = UninitScale
    /\ supplied = BuilderSize.v
    /\ pushCalls = <<>>
    /\ f4_down = FALSE
    /\ keystrokes = 0
    /\ requestedSize = NoSize
    /\ gwl_style = {}
    /\ close_button = TRUE
    /\ shown = None
    /\ sentControls = None
    /\ lastInput = NoInput
    /\ inputCount = 0
    /\ cells = [c \in Statics |-> LazyCell_new]
    /\ callers = [t \in Spawners |-> NotCalling]

----------------------------------------------------------------------------
(* spawn_window, the calling thread                                        *)

\* thread::spawn(...): the window thread starts running its closure.
SpawnThread ==
    /\ appPc = "start"
    /\ appPc' = "spawn_lock"
    /\ wtPc' = "create"
    /\ UNCHANGED <<spawnVars, evMutex, bufVars, flagVars, wtMsg, pushArg, sentMsg, histVars>>
    /\ UNCHANGED extVars

\* sync::mutex_lock(&mutex), also the re-lock at the end of condvar_wait.
SpawnLock ==
    /\ appPc = "spawn_lock"
    /\ recvMutex = "free"
    /\ recvMutex' = "app"
    /\ appPc' = "spawn_loop"
    /\ UNCHANGED <<wtPc, recv, hwnd, createError, evMutex, bufVars, flagVars,
                   wtMsg, pushArg, sentMsg, histVars>>
    /\ UNCHANGED extVars

\* if let Some(result) = lock.take() { break result.map(..) }
SpawnTake ==
    /\ appPc = "spawn_loop"
    /\ recv # "None"
    /\ recv' = "None"
    /\ recvMutex' = "free"
    /\ appPc' = IF recv = "Ok" THEN "idle" ELSE "failed"
    /\ UNCHANGED <<wtPc, hwnd, createError, evMutex, bufVars, flagVars,
                   wtMsg, pushArg, sentMsg, histVars>>
    /\ UNCHANGED extVars

\* else { sync::condvar_wait(&condvar, &mut lock) }
SpawnWait ==
    /\ appPc = "spawn_loop"
    /\ recv = "None"
    /\ recvMutex' = "free"
    /\ appPc' = "spawn_wait"
    /\ UNCHANGED <<wtPc, recv, hwnd, createError, evMutex, bufVars, flagVars,
                   wtMsg, pushArg, sentMsg, histVars>>
    /\ UNCHANGED extVars

\* std's Condvar::wait may return without a notification.
SpawnSpuriousWake ==
    /\ appPc = "spawn_wait"
    /\ appPc' = "spawn_lock"
    /\ UNCHANGED <<wtPc, spawnVars, evMutex, bufVars, flagVars,
                   wtMsg, pushArg, sentMsg, histVars>>
    /\ UNCHANGED extVars

----------------------------------------------------------------------------
(* spawn_window, the window thread up to the message loop                  *)

\* CreateWindowExW: the native call succeeds or returns NULL.  WM_NCCREATE
\* and WM_CREATE run inside it; neither writes create_params.error.
\* The window gets the builder's style bits, and a system menu whose
\* SC_CLOSE item is enabled.  controls: the builder's controls.
CreateWindowWith(controls) ==
    /\ wtPc = "create"
    /\ style' = [style EXCEPT !.controls = controls]
    /\ \E h \in {"valid", "null"} :
         /\ hwnd' = h
         /\ gwl_style' = IF h = "valid" THEN style_as_win32(style') ELSE gwl_style
    /\ close_button' = TRUE
    /\ createError' = createError
    /\ wtPc' = "publish_lock"
    /\ UNCHANGED <<appPc, recv, recvMutex, evMutex, bufVars, flagVars,
                   wtMsg, pushArg, sentMsg, histVars>>
    /\ UNCHANGED <<lifeVars, classVars, cmdVars, actVars, sizeVars, grpVars, keyVars, rtVars,
                   current_dpi, close_reason, cursor, sentW, shown, sentControls, lateVars>>

\* ... of a WindowBuilder whose controls are the default,
CreateWindow == CreateWindowWith(Some(Controls_enabled))

\* ... or were set with WindowBuilder::controls.
CreateWindowBuilt == \E controls \in ControlsOptions : CreateWindowWith(controls)

PublishLock ==
    /\ wtPc = "publish_lock"
    /\ recvMutex = "free"
    /\ recvMutex' = "wt"
    /\ wtPc' = "publish"
    /\ UNCHANGED <<appPc, recv, hwnd, createError, evMutex, bufVars, flagVars,
                   wtMsg, pushArg, sentMsg, histVars>>
    /\ UNCHANGED extVars

\* Fault: the slot is left empty.
PublishedResult_none == "None"

\* What the window thread stores in the slot.
PublishedResult == IF createError THEN "Err" ELSE "Ok"

\* The error arm returns at once (the guard is dropped, nothing is
\* notified); the Ok arm notifies, unlocks and goes on to the message loop.
\* On its way there the thread, which has registered the class, writes the
\* marker into the class data (set_class_data fails on a NULL hwnd) and
\* installs the HCBT_DESTROYWND hook; both are local to the window thread.
Publish ==
    /\ wtPc = "publish"
    /\ recv' = PublishedResult
    /\ recvMutex' = "free"
    /\ IF createError
         THEN /\ wtPc' = "exited"
              /\ appPc' = appPc
              /\ class_marker' = class_marker
         ELSE /\ wtPc' = "loop"
              /\ appPc' = condvar_notify1(appPc, "spawn_wait", "spawn_lock")
              /\ class_marker' = (class_marker \/ hwnd = "valid")
    /\ UNCHANGED <<hwnd, createError, evMutex, bufVars, flagVars,
                   wtMsg, pushArg, sentMsg, histVars>>
    /\ UNCHANGED <<destroy_flag, posted, quitPending, classVars, newVars, cmdVars>>

----------------------------------------------------------------------------
(* WindowImplData::push_events                                             *)

\* Entry of push_events(events) from a window_proc arm handling `msg`.
StartPush(msg, ps) ==
    /\ nextSeq + Len(ps) <= MaxEvents
    /\ pushArg' = Stamp(nextSeq + 1, ps)
    /\ nextSeq' = nextSeq + Len(ps)
    /\ wtMsg' = msg
    /\ wtPc' = "push_lock"

\* sync::mutex_lock(&self.ev_buf_sync), also the re-lock that ends condvar_wait.
PushLock ==
    /\ wtPc = "push_lock"
    /\ evMutex = "free"
    /\ evMutex' = "wt"
    /\ wtPc' = "push_loop"
    /\ UNCHANGED <<appPc, spawnVars, bufVars, flagVars, wtMsg, pushArg, sentMsg, histVars>>
    /\ UNCHANGED extVars

\* Fault: the result of push_many is ignored.
PushMustWait_ignoresFull == ev_buf_sync

\* Fault: `if` instead of `loop`: a push that has waited once goes on.
PushMustWait_once ==
    /\ ev_buf_sync \/ ~FixedVec_fits(ActiveBuf, pushArg)
    /\ \A i \in 1..Len(pushArg) : pushArg[i].seq \notin waited

\* The loop condition: *lock || !ev_buf.push_many(events)
PushMustWait == ev_buf_sync \/ ~FixedVec_fits(ActiveBuf, pushArg)

\* What the arm of window_proc does after push_events has returned.
AfterPush(msg) ==
    IF msg.kind \in {"WM_WINDOWPOSCHANGING", "RAMEN_WM_SETINNERSIZE"}
      THEN <<msg.a, msg.b>>
      ELSE client_area_size

\* The arm that called push_events handles a message a SendMessageW caller
\* is blocked on: when the arm returns, so does SendMessageW.
ReleasesCaller(msg) ==
    \/ msg.kind = "RAMEN_WM_SETINNERSIZE"
    \/ msg.kind = "RAMEN_WM_SETMAXIMIZED" /\ msg.b = 1

\* push_events was called by an arm that window_proc entered from inside
\* another arm (DefWindowProcW sent the message): the outer arm goes on.
ReturnsInto(msg) == IF msg.kind = "WM_SIZE in RAMEN_WM_SETMAXIMIZED" THEN "def_ret" ELSE "loop"

\* Fault: the events of the slice are appended one lock at a time.
PushAppend_each ==
    LET rest == SelectSeq(pushArg, LAMBDA e : \A i \in 1..Len(pushedLog) : pushedLog[i] # e)
        one  == IF rest = <<>> THEN <<>> ELSE <<Head(rest)>>
        last == Len(rest) <= 1
    IN  /\ wtPc = "push_loop"
        /\ ~PushMustWait
        /\ ev_buf_primary' = IF ev_buf_is_primary
                               THEN FixedVec_push_many(ev_buf_primary, one)
                               ELSE ev_buf_primary
        /\ ev_buf_secondary' = IF ev_buf_is_primary
                                 THEN ev_buf_secondary
                                 ELSE FixedVec_push_many(ev_buf_secondary, one)
        /\ evMutex' = "free"
        /\ wtPc' = IF last THEN ReturnsInto(wtMsg) ELSE "push_lock"
        /\ wtMsg' = IF last /\ ReturnsInto(wtMsg) = "loop" THEN NoMsg ELSE wtMsg
        /\ pushArg' = IF last THEN <<>> ELSE pushArg
        /\ client_area_size' = IF last THEN AfterPush(wtMsg) ELSE client_area_size
        /\ appPc' = IF last /\ ReleasesCaller(wtMsg) THEN "idle" ELSE appPc
        /\ sentMsg' = IF last /\ ReleasesCaller(wtMsg) THEN "none" ELSE sentMsg
        /\ pushedLog' = pushedLog \o one
        /\ sincePoll' = sincePoll \o one
        /\ pushCalls' = IF last /\ pushArg # <<>> THEN Append(pushCalls, pushArg) ELSE pushCalls
        /\ UNCHANGED <<spawnVars, ev_buf_sync, ev_buf_is_primary,
                       is_focused, is_maximized, is_minimized,
                       nextSeq, view, polled, delivered, firstBatches, waited>>
        /\ requestedSize' = IF last /\ wtMsg.kind = "RAMEN_WM_SETINNERSIZE"
                           THEN sentSize ELSE requestedSize
        /\ UNCHANGED <<lifeVars, classVars, cmdVars, actVars, fieldVars, sizeVars, keyVars, styleVars, lateVars>>

\* push_many succeeded: break, the guard is dropped, the arm finishes.
PushAppend ==
    /\ wtPc = "push_loop"
    /\ ~PushMustWait
    /\ ev_buf_primary' = IF ev_buf_is_primary
                           THEN FixedVec_push_many(ev_buf_primary, pushArg)
                           ELSE ev_buf_primary
    /\ ev_buf_secondary' = IF ev_buf_is_primary
                             THEN ev_buf_secondary
                             ELSE FixedVec_push_many(ev_buf_secondary, pushArg)
    /\ evMutex' = "free"
    /\ wtPc' = ReturnsInto(wtMsg)
    /\ wtMsg' = IF ReturnsInto(wtMsg) = "loop" THEN NoMsg ELSE wtMsg
    /\ pushArg' = <<>>
    /\ client_area_size' = AfterPush(wtMsg)
    /\ appPc' = IF ReleasesCaller(wtMsg) THEN "idle" ELSE appPc
    /\ sentMsg' = IF ReleasesCaller(wtMsg) THEN "none" ELSE sentMsg
    /\ pushedLog' = pushedLog \o pushArg
    /\ sincePoll' = sincePoll \o pushArg
    /\ pushCalls' = IF pushArg = <<>> THEN pushCalls ELSE Append(pushCalls, pushArg)
    /\ UNCHANGED <<spawnVars, ev_buf_sync, ev_buf_is_primary,
                   is_focused, is_maximized, is_minimized,
                   nextSeq, view, polled, delivered, firstBatches, waited>>
    /\ requestedSize' = IF wtMsg.kind = "RAMEN_WM_SETINNERSIZE" THEN sentSize ELSE requestedSize
    /\ UNCHANGED <<lifeVars, classVars, cmdVars, actVars, fieldVars, sizeVars, keyVars, styleVars, lateVars>>

\* Fault: the wait does not release the mutex.
PushBlock_keepsMutex ==
    /\ wtPc = "push_loop"
    /\ PushMustWait
    /\ ev_buf_sync' = TRUE
    /\ wtPc' = "push_wait"
    /\ waited' = waited \cup {pushArg[i].seq : i \in 1..Len(pushArg)}
    /\ UNCHANGED <<appPc, spawnVars, evMutex, ev_buf_is_primary, ev_buf_primary,
                   ev_buf_secondary, flagVars, wtMsg, pushArg, sentMsg,
                   nextSeq, pushedLog, sincePoll, view, polled, delivered, firstBatches>>
    /\ UNCHANGED extVars

\* Fault: the pusher waits without setting the flag.
PushBlock_noFlag ==
    /\ wtPc = "push_loop"
    /\ PushMustWait
    /\ evMutex' = "free"
    /\ wtPc' = "push_wait"
    /\ waited' = waited \cup {pushArg[i].seq : i \in 1..Len(pushArg)}
    /\ UNCHANGED <<appPc, spawnVars, bufVars, flagVars, wtMsg, pushArg, sentMsg,
                   nextSeq, pushedLog, sincePoll, view, polled, delivered, firstBatches>>
    /\ UNCHANGED extVars

\* *lock = true; sync::condvar_wait(&self.ev_buf_ping, &mut lock)
PushBlock ==
    /\ wtPc = "push_loop"
    /\ PushMustWait
    /\ ev_buf_sync' = TRUE
    /\ evMutex' = "free"
    /\ wtPc' = "push_wait"
    /\ waited' = waited \cup {pushArg[i].seq : i \in 1..Len(pushArg)}
    /\ UNCHANGED <<appPc, spawnVars, ev_buf_is_primary, ev_buf_primary, ev_buf_secondary,
                   flagVars, wtMsg, pushArg, sentMsg,
                   nextSeq, pushedLog, sincePoll, view, polled, delivered, firstBatches>>
    /\ UNCHANGED extVars

\* std's Condvar::wait may return without a notification.
PushSpuriousWake ==
    /\ wtPc = "push_wait"
    /\ wtPc' = "push_lock"
    /\ UNCHANGED <<appPc, spawnVars, evMutex, bufVars, flagVars, wtMsg, pushArg,
                   sentMsg, histVars>>
    /\ UNCHANGED extVars

----------------------------------------------------------------------------
(* window_proc: the arms that produce events                               *)

Dispatching == wtPc = "loop" /\ hwnd = "valid"

Msg(kind, a, b) == [kind |-> kind, a |-> a, b |-> b]

WM_SETFOCUS ==
    /\ Dispatching
    /\ IF ~is_focused
         THEN /\ is_focused' = TRUE
              /\ StartPush(Msg("WM_SETFOCUS", 0, 0), << <<"Focus", 1, 0>> >>)
              /\ UNCHANGED <<appPc, spawnVars, evMutex, bufVars, is_maximized, is_minimized,
                             client_area_size, sentMsg,
                             pushedLog, sincePoll, view, polled, delivered, firstBatches,
                             waited>>
         ELSE UNCHANGED vars
    /\ UNCHANGED extVars

WM_KILLFOCUS ==
    /\ Dispatching
    /\ IF is_focused
         THEN /\ is_focused' = FALSE
              /\ StartPush(Msg("WM_KILLFOCUS", 0, 0), << <<"Focus", 0, 0>> >>)
              /\ UNCHANGED <<appPc, spawnVars, evMutex, bufVars, is_maximized, is_minimized,
                             client_area_size, sentMsg,
                             pushedLog, sincePoll, view, polled, delivered, firstBatches,
                             waited>>
         ELSE UNCHANGED vars
    /\ UNCHANGED extVars

\* Fault: the arm tracks the activation state, as the logic the source keeps
\* in a comment would.
ActivationFocus_tracks(active, minimized, focused) ==
    IF active /\ minimized THEN focused ELSE active

\* What WM_ACTIVATE leaves in is_focused: the arm is `0`, the field is not
\* touched whatever the activation state and the minimized flag are.
ActivationFocus(active, minimized, focused) == focused

\* wparam: LOWORD is the activation state, HIWORD is non-zero if minimized.
WM_ACTIVATE ==
    /\ Dispatching
    /\ \E active \in BOOLEAN, minimized \in BOOLEAN :
         is_focused' = ActivationFocus(active, minimized, is_focused)
    /\ activated' = TRUE
    /\ UNCHANGED <<appPc, wtPc, spawnVars, evMutex, bufVars, is_maximized, is_minimized,
                   client_area_size, wtMsg, pushArg, sentMsg, histVars>>
    /\ UNCHANGED <<lifeVars, classVars, cmdVars, fieldVars, sizeVars, grpVars, keyVars, rtVars, styleVars, lateVars>>

\* WM_ACTIVATEAPP => 0
WM_ACTIVATEAPP ==
    /\ Dispatching
    /\ activated' = TRUE
    /\ UNCHANGED <<progVars, histVars, lifeVars, classVars, cmdVars, fieldVars, sizeVars, grpVars, keyVars, rtVars, styleVars, lateVars>>

\* set_max_min: the events it pushes into the local FixedVec<Event, 3>.
set_max_min(max, min) ==
    (IF is_maximized # max THEN << <<"Maximize", BoolInt(max), 0>> >> ELSE <<>>)
    \o (IF is_minimized # min THEN << <<"Minimize", BoolInt(min), 0>> >> ELSE <<>>)

SizeReasons == {"SIZE_RESTORED", "SIZE_MINIMIZED", "SIZE_MAXIMIZED", "SIZE_MAXSHOW"}

\* The arm always ends in push_events(events.slice()), also with no event.
WM_SIZE ==
    /\ Dispatching
    /\ \E wparam \in SizeReasons :
         LET known == wparam # "SIZE_MAXSHOW"
             max == wparam = "SIZE_MAXIMIZED"
             min == wparam = "SIZE_MINIMIZED"
         IN  /\ is_maximized' = IF known THEN max ELSE is_maximized
             /\ is_minimized' = IF known THEN min ELSE is_minimized
             /\ StartPush(Msg("WM_SIZE", 0, 0), IF known THEN set_max_min(max, min) ELSE <<>>)
    /\ UNCHANGED <<appPc, spawnVars, evMutex, bufVars, is_focused, client_area_size, sentMsg,
                   pushedLog, sincePoll, view, polled, delivered, firstBatches,
                             waited>>
    /\ UNCHANGED extVars

\* Fault: the computed inner size is not tested.
ResizeAccepted_unchecked(new_w, new_h) == TRUE

\* if new_w > 0 && new_h > 0
ResizeAccepted(new_w, new_h) == new_w > 0 /\ new_h > 0

\* cx, cy: the outer size of the WINDOWPOS; width_adj, height_adj: what
\* adjust_window_for_dpi returns for a zero inner size (the frame).
WM_WINDOWPOSCHANGING ==
    /\ Dispatching
    /\ \E nosize \in BOOLEAN, cx \in OuterSizes, cy \in OuterSizes,
          width_adj \in FrameSizes, height_adj \in FrameSizes :
         LET new_w == cx - width_adj
             new_h == cy - height_adj
         IN  IF ~nosize /\ cx # 0 /\ cy # 0 /\ ResizeAccepted(new_w, new_h)
               THEN /\ StartPush(Msg("WM_WINDOWPOSCHANGING", new_w, new_h),
                                 << Resize(Physical(new_w, new_h)) >>)
                    /\ requestedSize' = NoSize
                    /\ UNCHANGED <<appPc, spawnVars, evMutex, bufVars, flagVars, sentMsg,
                                   pushedLog, sincePoll, view, polled, delivered, firstBatches,
                             waited>>
               ELSE UNCHANGED vars
    /\ UNCHANGED <<lifeVars, classVars, cmdVars, actVars, fieldVars, sizeVars, grpVars, keyVars, styleVars, lateVars>>

----------------------------------------------------------------------------
(* WindowImpl::swap_events                                                 *)

SwapCall ==
    /\ appPc = "idle"
    /\ appPc' = "swap_lock"
    /\ UNCHANGED <<wtPc, spawnVars, evMutex, bufVars, flagVars, wtMsg, pushArg,
                   sentMsg, histVars>>
    /\ UNCHANGED extVars

SwapLock ==
    /\ appPc = "swap_lock"
    /\ evMutex = "free"
    /\ evMutex' = "app"
    /\ appPc' = "swap_body"
    /\ UNCHANGED <<wtPc, spawnVars, bufVars, flagVars, wtMsg, pushArg, sentMsg, histVars>>
    /\ UNCHANGED extVars

\* Fault: the selector is not flipped.
SwapFlip_stuck(is_primary) == is_primary

\* The selector after the swap.
SwapFlip(is_primary) == ~is_primary

\* Fault: the secondary buffer is cleared whichever buffer is the back one.
ClearsSecondary_always(is_primary) == TRUE

\* if ev_buf_is_primary { ev_buf_secondary.clear() } else { ev_buf_primary.clear() }
ClearsSecondary(is_primary) == is_primary

\* Clear the back buffer, switch to it, ping a waiting pusher, unlock.
SwapBody ==
    /\ appPc = "swap_body"
    /\ ev_buf_secondary' = IF ClearsSecondary(ev_buf_is_primary)
                             THEN FixedVec_clear(ev_buf_secondary) ELSE ev_buf_secondary
    /\ ev_buf_primary' = IF ClearsSecondary(ev_buf_is_primary)
                           THEN ev_buf_primary ELSE FixedVec_clear(ev_buf_primary)
    /\ ev_buf_is_primary' = SwapFlip(ev_buf_is_primary)
    /\ IF ev_buf_sync
         THEN /\ ev_buf_sync' = FALSE
              /\ wtPc' = condvar_notify1(wtPc, "push_wait", "push_lock")
         ELSE UNCHANGED <<ev_buf_sync, wtPc>>
    /\ evMutex' = "free"
    /\ appPc' = "idle"
    /\ view' = events'
    /\ polled' = sincePoll
    /\ sincePoll' = <<>>
    /\ delivered' = delivered \o events'
    /\ firstBatches' = IF events' # <<>> /\ Len(firstBatches) < 2
                          THEN Append(firstBatches, events') ELSE firstBatches
    /\ UNCHANGED <<spawnVars, flagVars, wtMsg, pushArg, sentMsg,
                   nextSeq, pushedLog, waited>>
    /\ UNCHANGED extVars

----------------------------------------------------------------------------
(* Synchronous commands: SendMessageW and the arm that answers it          *)

SyncCommands == {"RAMEN_WM_EXECUTE"}

\* WindowImpl::execute up to SendMessageW, which blocks until window_proc
\* has returned; on a hwnd that is no window it fails and returns at once
\* (the result is ignored).
SendMessage ==
    /\ appPc = "idle"
    /\ fOpt' = "Some"
    /\ result' = "uninit"
    /\ fRuns' = 0
    /\ IF hwnd = "valid"
         THEN /\ \E m \in SyncCommands : sentMsg' = m
              /\ appPc' = "send_wait"
         ELSE /\ sentMsg' = sentMsg
              /\ appPc' = "exec_ret"
    /\ UNCHANGED <<wtPc, spawnVars, evMutex, bufVars, flagVars, wtMsg, pushArg, histVars>>
    /\ UNCHANGED <<lifeVars, classVars, newVars, titleVars>>

\* option.take() leaves None behind.
TakeClosure(option) == "None"

\* The window thread takes a sent message only inside GetMessageW.
\* if let Some(f) = option.take() { f() }: f writes its result through
\* out_ptr; then window_proc returns and so does SendMessageW.
RAMEN_WM_EXECUTE ==
    /\ Dispatching
    /\ sentMsg = "RAMEN_WM_EXECUTE"
    /\ appPc = "send_wait"
    /\ IF fOpt = "Some"
         THEN /\ fOpt' = TakeClosure(fOpt)
              /\ fRuns' = fRuns + 1
              /\ result' = "written"
         ELSE UNCHANGED execVars
    /\ sentMsg' = "none"
    /\ appPc' = "exec_ret"
    /\ UNCHANGED <<wtPc, spawnVars, evMutex, bufVars, flagVars, wtMsg, pushArg, histVars>>
    /\ UNCHANGED <<lifeVars, classVars, newVars, titleVars>>

\* result.assume_init(): execute returns what the cell holds; the closure
\* box, if still there, is dropped without being called.
ExecuteReturn ==
    /\ appPc = "exec_ret"
    /\ appPc' = "idle"
    /\ fOpt' = "None"
    /\ result' = "uninit"
    /\ fRuns' = 0
    /\ UNCHANGED <<wtPc, spawnVars, evMutex, bufVars, flagVars, wtMsg, pushArg, sentMsg,
                   histVars, lifeVars, classVars, newVars, titleVars>>

----------------------------------------------------------------------------
(* The message queue of the window thread.  GetMessageW first delivers the *)
(* messages sent from other threads, then retrieves the oldest posted      *)
(* message, and reports WM_QUIT only when the queue is empty.              *)

\* PostMessageW(self.hwnd, ..): the message is queued for the thread owning
\* the window.  With a NULL hwnd it goes to the calling thread's own queue,
\* with a destroyed one the call fails; the callers ignore the result.
PostMessageW(queue, msg) == IF hwnd = "valid" THEN Append(queue, msg) ELSE queue

\* A caller is blocked in SendMessageW.
SentPending == sentMsg # "none"

\* GetMessageW returns the posted message `kind` for DispatchMessageW.
Retrieving(kind) ==
    /\ wtPc = "loop"
    /\ ~SentPending
    /\ posted # <<>>
    /\ Head(posted).kind = kind

----------------------------------------------------------------------------
(* Window title: set_title, set_title_async and the arms that apply them   *)

\* str_to_wstr: nothing is allocated for the empty string (the pointer is
\* to a static NUL); else the buffer holds the code units and a terminator.
str_to_wstr(src) ==
    IF src = <<>> THEN [alloc |-> FALSE, text |-> <<NUL>>]
                  ELSE [alloc |-> TRUE, text |-> src \o <<NUL>>]

\* The string WM_SETTEXT reads at a pointer: up to the first NUL.
CStr(w) ==
    LET n == CHOOSE i \in 1..Len(w) : w[i] = NUL /\ \A j \in 1..(i - 1) : w[j] # NUL
    IN  SubSeq(w, 1, n - 1)

\* The address of a new allocation.
Alloc == CHOOSE id \in BufIds : ~heap[id].live /\ \A j \in BufIds : j < id => heap[j].live

\* mem::forget(wstr): the allocation stays, owned by no variable.
Forget(h, id, text) == [h EXCEPT ![id] = [live |-> TRUE, text |-> text]]

\* WindowImpl::set_title_async.  If the first code unit is NUL the message
\* carries no pointer (a buffer allocated for a title starting with NUL is
\* dropped by the caller on return); else it carries length and pointer
\* and the buffer is forgotten.
SetTitleAsync ==
    /\ appPc = "idle"
    /\ Len(posted) < MaxBufs
    /\ \E id \in BufIds : ~heap[id].live
    /\ \E t \in AsyncTitles :
         LET wstr == str_to_wstr(t)
         IN  IF wstr.text[1] = NUL
               THEN /\ posted' = PostMessageW(posted, Msg("RAMEN_WM_SETTEXT_ASYNC", 0, 0))
                    /\ heap' = heap
               ELSE /\ posted' = PostMessageW(posted,
                                    Msg("RAMEN_WM_SETTEXT_ASYNC", Len(wstr.text), Alloc))
                    /\ heap' = Forget(heap, Alloc, wstr.text)
    /\ settled' = {}
    /\ UNCHANGED <<progVars, histVars, destroy_flag, class_marker, quitPending, classVars, newVars,
                   execVars, title, sentText>>

\* window_proc, RAMEN_WM_SETTEXT_ASYNC: rebuild the Vec from (lparam,
\* wparam), apply it with WM_SETTEXT, drop it; a null lparam is the empty title.
RAMEN_WM_SETTEXT_ASYNC ==
    /\ Retrieving("RAMEN_WM_SETTEXT_ASYNC")
    /\ hwnd = "valid"
    /\ LET msg == Head(posted)
       IN  IF msg.b # 0
             THEN /\ title' = CStr(SubSeq(heap[msg.b].text, 1, msg.a))
                  /\ heap' = [heap EXCEPT ![msg.b] = [live |-> FALSE, text |-> <<>>]]
             ELSE /\ title' = CStr(<<NUL>>)
                  /\ heap' = heap
    /\ posted' = Tail(posted)
    /\ UNCHANGED <<progVars, histVars, destroy_flag, class_marker, quitPending, classVars, newVars,
                   execVars, sentText, settled>>

\* WindowImpl::set_title up to SendMessageW(WM_SETTEXT), which blocks until
\* window_proc has returned, or fails at once on a hwnd that is no window.
SetTitle ==
    /\ appPc = "idle"
    /\ \E t \in SyncTitles : sentText' = t
    /\ IF hwnd = "valid"
         THEN /\ sentMsg' = "WM_SETTEXT"
              /\ appPc' = "send_wait"
              /\ settled' = {}
         ELSE /\ sentMsg' = sentMsg
              /\ appPc' = appPc
              /\ settled' = {sentText'}
    /\ UNCHANGED <<wtPc, spawnVars, evMutex, bufVars, flagVars, wtMsg, pushArg, histVars,
                   lifeVars, classVars, newVars, execVars, title, heap>>

\* window_proc has no arm for WM_SETTEXT: DefWindowProcW sets the text;
\* SendMessageW and set_title then return.
WM_SETTEXT ==
    /\ Dispatching
    /\ sentMsg = "WM_SETTEXT"
    /\ appPc = "send_wait"
    /\ title' = CStr(str_to_wstr(sentText).text)
    /\ sentMsg' = "none"
    /\ appPc' = "idle"
    /\ settled' = {sentText}
    /\ UNCHANGED <<wtPc, spawnVars, evMutex, bufVars, flagVars, wtMsg, pushArg, histVars,
                   lifeVars, classVars, newVars, execVars, sentText, heap>>

----------------------------------------------------------------------------
(* Cursor and style commands, and the close request: the handle operations *)
(* send or post a message, the arms of window_proc write the fields.       *)

\* Fault: the handle operation stores the requestedSize value itself.
HandleSide_writes(field, requested) == requested

\* What a handle operation leaves in a cached field of WindowImplData: the
\* operations take &self, pass the request in wparam and write nothing.
HandleSide(field, requested) == field

\* WindowImpl::set_cursor: SendMessageW(hwnd, RAMEN_WM_SETCURSOR, cursor as u32, 0)
SetCursor ==
    /\ appPc = "idle"
    /\ \E c \in Cursors :
         /\ sentW' = IF hwnd = "valid" THEN CursorAsU32(c) ELSE sentW
         /\ cursor' = HandleSide(cursor, LoadCursorImage(cursor_to_int_resource(c)))
    /\ IF hwnd = "valid"
         THEN sentMsg' = "RAMEN_WM_SETCURSOR" /\ appPc' = "send_wait"
         ELSE UNCHANGED <<sentMsg, appPc>>
    /\ UNCHANGED <<wtPc, spawnVars, evMutex, bufVars, flagVars, wtMsg, pushArg, histVars,
                   lifeVars, classVars, cmdVars, actVars, sizeVars, grpVars, keyVars, rtVars, styleVars, style, current_dpi, close_reason, lateVars>>

\* WindowImpl::set_cursor_async: PostMessageW(hwnd, RAMEN_WM_SETCURSOR, cursor as u32, 0)
SetCursorAsync ==
    /\ appPc = "idle"
    /\ Len(posted) < MaxPosted
    /\ \E c \in Cursors :
         /\ posted' = PostMessageW(posted, Msg("RAMEN_WM_SETCURSOR", CursorAsU32(c), 0))
         /\ cursor' = HandleSide(cursor, LoadCursorImage(cursor_to_int_resource(c)))
    /\ UNCHANGED <<progVars, histVars, destroy_flag, class_marker, quitPending,
                   classVars, cmdVars, actVars, sizeVars, grpVars, keyVars, rtVars, styleVars, style, current_dpi, close_reason, sentW, lateVars>>

\* window_proc, RAMEN_WM_SETCURSOR, for the message a caller is blocked on
\* (SendMessageW then returns) or else the oldest posted message.
\* SetCursor on the screen is outside the model.
RAMEN_WM_SETCURSOR ==
    /\ Dispatching
    /\ LET arm(wparam) ==
             LET rsrc == cursor_to_int_resource(CursorFromU32(wparam))
             IN  IF rsrc # "NULL" THEN LoadCursorImage(rsrc) ELSE "NULL"
       IN  IF sentMsg = "RAMEN_WM_SETCURSOR"
             THEN /\ cursor' = arm(sentW)
                  /\ sentMsg' = "none"
                  /\ sentW' = 0
                  /\ appPc' = "idle"
                  /\ posted' = posted
             ELSE /\ Retrieving("RAMEN_WM_SETCURSOR")
                  /\ cursor' = arm(Head(posted).a)
                  /\ posted' = Tail(posted)
                  /\ UNCHANGED <<sentMsg, sentW, appPc>>
    /\ UNCHANGED <<wtPc, spawnVars, evMutex, bufVars, flagVars, wtMsg, pushArg, histVars,
                   destroy_flag, class_marker, quitPending, classVars, cmdVars, actVars, sizeVars, grpVars, keyVars, rtVars, styleVars,
                   style, current_dpi, close_reason, lateVars>>

\* WindowImpl::set_resizable: SendMessageW(hwnd, RAMEN_WM_SETTHICKFRAME, resizable, 0)
SetResizable ==
    /\ appPc = "idle"
    /\ \E resizable \in BOOLEAN :
         /\ sentW' = IF hwnd = "valid" THEN BoolInt(resizable) ELSE sentW
         /\ style' = [style EXCEPT !.resizable = HandleSide(style.resizable, resizable)]
    /\ IF hwnd = "valid"
         THEN sentMsg' = "RAMEN_WM_SETTHICKFRAME" /\ appPc' = "send_wait"
         ELSE UNCHANGED <<sentMsg, appPc>>
    /\ UNCHANGED <<wtPc, spawnVars, evMutex, bufVars, flagVars, wtMsg, pushArg, histVars,
                   lifeVars, classVars, cmdVars, actVars, sizeVars, grpVars, keyVars, rtVars, styleVars, current_dpi, close_reason, cursor, lateVars>>

\* WindowImpl::set_resizable_async
SetResizableAsync ==
    /\ appPc = "idle"
    /\ Len(posted) < MaxPosted
    /\ \E resizable \in BOOLEAN :
         /\ posted' = PostMessageW(posted, Msg("RAMEN_WM_SETTHICKFRAME", BoolInt(resizable), 0))
         /\ style' = [style EXCEPT !.resizable = HandleSide(style.resizable, resizable)]
    /\ UNCHANGED <<progVars, histVars, destroy_flag, class_marker, quitPending,
                   classVars, cmdVars, actVars, sizeVars, grpVars, keyVars, rtVars, styleVars, current_dpi, close_reason, cursor, sentW, lateVars>>

\* The style commands applied since the last set_visible was.
StyleUpdated(sh) ==
    IF sh = None THEN None ELSE Some([sh[1] EXCEPT !.updates = IF @ < 2 THEN @ + 1 ELSE @])

\* window_proc, RAMEN_WM_SETTHICKFRAME: if the bit differs it is stored and
\* update_window_style rewrites the native style.
RAMEN_WM_SETTHICKFRAME ==
    /\ Dispatching
    /\ LET arm(wparam) ==
             LET resizable == wparam # 0
             IN  IF style.resizable # resizable
                   THEN [style EXCEPT !.resizable = resizable]
                   ELSE style
       IN  IF sentMsg = "RAMEN_WM_SETTHICKFRAME"
             THEN /\ style' = arm(sentW)
                  /\ sentMsg' = "none"
                  /\ sentW' = 0
                  /\ appPc' = "idle"
                  /\ posted' = posted
             ELSE /\ Retrieving("RAMEN_WM_SETTHICKFRAME")
                  /\ style' = arm(Head(posted).a)
                  /\ posted' = Tail(posted)
                  /\ UNCHANGED <<sentMsg, sentW, appPc>>
    /\ gwl_style' = IF style' # style THEN update_window_style(style') ELSE gwl_style
    /\ shown' = IF style' # style THEN StyleUpdated(shown) ELSE shown
    /\ UNCHANGED <<wtPc, spawnVars, evMutex, bufVars, flagVars, wtMsg, pushArg, histVars,
                   destroy_flag, class_marker, quitPending, classVars, cmdVars, actVars, sizeVars, grpVars, keyVars, rtVars,
                   close_button, sentControls, current_dpi, close_reason, cursor, lateVars>>

\* WindowImpl::set_maximized: SendMessageW(hwnd, RAMEN_WM_SETMAXIMIZED, maximized, 0)
SetMaximized ==
    /\ appPc = "idle"
    /\ \E maximized \in BOOLEAN :
         IF hwnd = "valid"
           THEN /\ sentMsg' = "RAMEN_WM_SETMAXIMIZED"
                /\ sentW' = BoolInt(maximized)
                /\ appPc' = "send_wait"
           ELSE UNCHANGED <<sentMsg, sentW, appPc>>
    /\ UNCHANGED <<wtPc, spawnVars, evMutex, bufVars, flagVars, wtMsg, pushArg, histVars,
                   lifeVars, classVars, cmdVars, actVars, sizeVars, grpVars, keyVars, rtVars, styleVars,
                   style, current_dpi, close_reason, cursor, lateVars>>

\* WindowImpl::set_maximized_async
SetMaximizedAsync ==
    /\ appPc = "idle"
    /\ Len(posted) < MaxPosted
    /\ \E maximized \in BOOLEAN :
         posted' = PostMessageW(posted, Msg("RAMEN_WM_SETMAXIMIZED", BoolInt(maximized), 0))
    /\ UNCHANGED <<progVars, histVars, destroy_flag, class_marker, quitPending,
                   classVars, cmdVars, actVars, fieldVars, sizeVars, grpVars, keyVars, rtVars, styleVars, lateVars>>

\* window_proc, RAMEN_WM_SETMAXIMIZED, up to the return of the nested arm:
\* if the cached state differs, DefWindowProcW(hwnd, WM_SYSCOMMAND, button)
\* maximizes or restores the window, and the system sends it WM_SIZE
\* (SIZE_MAXIMIZED or SIZE_RESTORED) before DefWindowProcW returns.
RAMEN_WM_SETMAXIMIZED ==
    /\ Dispatching
    /\ LET isSent == sentMsg = "RAMEN_WM_SETMAXIMIZED"
           wparam == IF isSent THEN sentW ELSE Head(posted).a
           maximized == wparam # 0
           slice == set_max_min(maximized, FALSE)
       IN  /\ isSent \/ Retrieving("RAMEN_WM_SETMAXIMIZED")
           /\ posted' = IF isSent THEN posted ELSE Tail(posted)
           /\ IF is_maximized # maximized
                 THEN /\ nextSeq + Len(slice) + 1 <= MaxEvents
                      /\ is_maximized' = maximized
                      /\ is_minimized' = FALSE
                      /\ StartPush(Msg("WM_SIZE in RAMEN_WM_SETMAXIMIZED",
                                       wparam, BoolInt(isSent)), slice)
                      /\ UNCHANGED <<appPc, sentMsg, sentW>>
                 ELSE /\ IF isSent
                           THEN sentMsg' = "none" /\ sentW' = 0 /\ appPc' = "idle"
                           ELSE UNCHANGED <<sentMsg, sentW, appPc>>
                      /\ UNCHANGED <<wtPc, wtMsg, pushArg, nextSeq, is_maximized, is_minimized>>
    /\ UNCHANGED <<spawnVars, evMutex, bufVars, is_focused, client_area_size,
                   pushedLog, sincePoll, view, polled, delivered, firstBatches, waited,
                   destroy_flag, class_marker, quitPending, classVars, cmdVars, actVars,
                   sizeVars, grpVars, keyVars, rtVars, styleVars, style, current_dpi, close_reason, cursor, lateVars>>

\* ... and after it: user_data.is_maximized = maximized;
\* user_data.push_event(Event::Maximize(maximized)).
SetMaximizedPush ==
    /\ wtPc = "def_ret"
    /\ is_maximized' = (wtMsg.a # 0)
    /\ StartPush(Msg("RAMEN_WM_SETMAXIMIZED", wtMsg.a, wtMsg.b), << <<"Maximize", wtMsg.a, 0>> >>)
    /\ UNCHANGED <<appPc, spawnVars, evMutex, bufVars, is_focused, is_minimized,
                   client_area_size, sentMsg,
                   pushedLog, sincePoll, view, polled, delivered, firstBatches, waited>>
    /\ UNCHANGED extVars

----------------------------------------------------------------------------
(* Visibility and controls: set_visible, set_controls and their arms       *)

\* A u32 is kept as its two 16-bit halves <<high, low>>, a WPARAM (usize,
\* 64 bits) as four 16-bit parts, most significant first.

\* `x as WPARAM`: zero extension.
as_WPARAM(x) == <<0, 0, x[1], x[2]>>

\* `wparam as u32`: truncation.
as_u32(wparam) == <<wparam[3], wparam[4]>>

\* !0u32
AllOnes == <<65535, 65535>>

\* Fault: minimize and maximize trade places.
Controls_to_bits_swapped(c) ==
    <<0, BoolInt(c.minimize) * 2 + BoolInt(c.maximize) * 4 + BoolInt(c.close)>>

\* Controls::to_bits: (minimize as u32) << 2 | (maximize as u32) << 1 | close as u32
Controls_to_bits(c) ==
    <<0, BoolInt(c.minimize) * 4 + BoolInt(c.maximize) * 2 + BoolInt(c.close)>>

\* Controls::from_bits
Controls_from_bits(x) ==
    [minimize |-> (x[2] \div 4) % 2 # 0,
     maximize |-> (x[2] \div 2) % 2 # 0,
     close    |-> x[2] % 2 # 0]

\* controls.map(|c| c.to_bits()).unwrap_or(!0) as WPARAM
ControlsWord(controls) ==
    as_WPARAM(IF controls = None THEN AllOnes ELSE Controls_to_bits(controls[1]))

\* The arm: bits = wparam as u32; Some(from_bits(bits)) if bits != !0, else None.
ControlsOfWord(wparam) ==
    LET bits == as_u32(wparam)
    IN  IF bits # AllOnes THEN Some(Controls_from_bits(bits)) ELSE None

\* set_close_button: the state EnableMenuItem leaves the SC_CLOSE item in
\* (MF_ENABLED, or MF_DISABLED | MF_GRAYED).
set_close_button(enabled) == enabled

\* The native visible bit.
IsVisible(bits) == "WS_VISIBLE" \in bits

\* ShowWindow(hwnd, SW_SHOW / SW_HIDE) has shown or hidden the window.
ShowWindowBits(bits, visible) ==
    IF visible THEN bits \cup {"WS_VISIBLE"} ELSE bits \ {"WS_VISIBLE"}

\* WindowImpl::set_visible: ShowWindow called by the handle's thread.  If
\* the visibility changes the system sends WM_SHOWWINDOW to the window and
\* the caller waits for the arm; if not, no message is sent.
SetVisible ==
    /\ appPc = "idle"
    /\ \E visible \in BOOLEAN :
         IF hwnd = "valid"
           THEN IF IsVisible(gwl_style) # visible
                  THEN /\ sentMsg' = "WM_SHOWWINDOW"
                       /\ sentW' = BoolInt(visible)
                       /\ appPc' = "send_wait"
                       /\ shown' = shown
                  ELSE /\ shown' = Some([visible |-> visible, updates |-> 0])
                       /\ UNCHANGED <<sentMsg, sentW, appPc>>
           ELSE UNCHANGED <<sentMsg, sentW, appPc, shown>>
    /\ UNCHANGED <<wtPc, spawnVars, evMutex, bufVars, flagVars, wtMsg, pushArg, histVars,
                   lifeVars, classVars, cmdVars, actVars, sizeVars, grpVars, keyVars, rtVars,
                   gwl_style, close_button, sentControls,
                   style, current_dpi, close_reason, cursor, lateVars>>

\* WindowImpl::set_visible_async: ShowWindowAsync queues the request for the
\* window's thread.
SetVisibleAsync ==
    /\ appPc = "idle"
    /\ Len(posted) < MaxPosted
    /\ \E visible \in BOOLEAN :
         posted' = PostMessageW(posted, Msg("ShowWindowAsync", BoolInt(visible), 0))
    /\ UNCHANGED <<progVars, histVars, destroy_flag, class_marker, quitPending,
                   classVars, cmdVars, actVars, fieldVars, sizeVars, grpVars, keyVars, rtVars,
                   styleVars, lateVars>>

\* Fault: the arm never stores the new visibility.
ShowWindowCached_never(lparam) == FALSE

\* if lparam == 0 { user_data(hwnd).style.visible = wparam != 0 }
ShowWindowCached(lparam) == lparam = 0

\* window_proc, WM_SHOWWINDOW, sent by ShowWindow (lparam 0; the window has
\* no owner or parent that could cause the other reasons) on behalf of
\* set_visible, or by the queued request of set_visible_async when the
\* visibility changes; then the system shows or hides the window.
WM_SHOWWINDOW ==
    /\ Dispatching
    /\ LET isSent == sentMsg = "WM_SHOWWINDOW"
           wparam == IF isSent THEN sentW ELSE Head(posted).a
           visible == wparam # 0
           changes == IsVisible(gwl_style) # visible
       IN  /\ isSent \/ Retrieving("ShowWindowAsync")
           /\ posted' = IF isSent THEN posted ELSE Tail(posted)
           /\ style' = IF changes /\ ShowWindowCached(0)
                         THEN [style EXCEPT !.visible = visible] ELSE style
           /\ gwl_style' = ShowWindowBits(gwl_style, visible)
           /\ shown' = Some([visible |-> visible, updates |-> 0])
           /\ IF isSent
                THEN sentMsg' = "none" /\ sentW' = 0 /\ appPc' = "idle"
                ELSE UNCHANGED <<sentMsg, sentW, appPc>>
    /\ UNCHANGED <<wtPc, spawnVars, evMutex, bufVars, flagVars, wtMsg, pushArg, histVars,
                   destroy_flag, class_marker, quitPending, classVars, cmdVars, actVars,
                   sizeVars, grpVars, keyVars, rtVars, close_button, sentControls,
                   current_dpi, close_reason, cursor, lateVars>>

\* WindowImpl::set_controls: SendMessageW(hwnd, RAMEN_WM_SETCONTROLS, word, 0)
SetControls ==
    /\ appPc = "idle"
    /\ \E controls \in ControlsOptions :
         IF hwnd = "valid"
           THEN /\ sentMsg' = "RAMEN_WM_SETCONTROLS"
                /\ sentW' = ControlsWord(controls)
                /\ sentControls' = controls
                /\ appPc' = "send_wait"
           ELSE UNCHANGED <<sentMsg, sentW, sentControls, appPc>>
    /\ UNCHANGED <<wtPc, spawnVars, evMutex, bufVars, flagVars, wtMsg, pushArg, histVars,
                   lifeVars, classVars, cmdVars, actVars, sizeVars, grpVars, keyVars, rtVars,
                   gwl_style, close_button, shown,
                   style, current_dpi, close_reason, cursor, lateVars>>

\* WindowImpl::set_controls_async
SetControlsAsync ==
    /\ appPc = "idle"
    /\ Len(posted) < MaxPosted
    /\ \E controls \in ControlsOptions :
         posted' = PostMessageW(posted, Msg("RAMEN_WM_SETCONTROLS", ControlsWord(controls), 0))
    /\ UNCHANGED <<progVars, histVars, destroy_flag, class_marker, quitPending,
                   classVars, cmdVars, actVars, fieldVars, sizeVars, grpVars, keyVars, rtVars,
                   styleVars, lateVars>>

\* window_proc, RAMEN_WM_SETCONTROLS: if the decoded controls differ from
\* the cached ones they are stored, the close button is set if there are
\* controls, and update_window_style rewrites the native style.
RAMEN_WM_SETCONTROLS ==
    /\ Dispatching
    /\ LET isSent == sentMsg = "RAMEN_WM_SETCONTROLS"
           wparam == IF isSent THEN sentW ELSE Head(posted).a
           controls == ControlsOfWord(wparam)
       IN  /\ isSent \/ Retrieving("RAMEN_WM_SETCONTROLS")
           /\ posted' = IF isSent THEN posted ELSE Tail(posted)
           /\ IF style.controls # controls
                THEN /\ style' = [style EXCEPT !.controls = controls]
                     /\ close_button' = IF controls # None
                                          THEN set_close_button(controls[1].close)
                                          ELSE close_button
                     /\ gwl_style' = update_window_style(style')
                     /\ shown' = StyleUpdated(shown)
                ELSE UNCHANGED <<style, close_button, gwl_style, shown>>
           /\ IF isSent
                THEN sentMsg' = "none" /\ sentW' = 0 /\ appPc' = "idle"
                ELSE UNCHANGED <<sentMsg, sentW, appPc>>
    /\ sentControls' = sentControls
    /\ UNCHANGED <<wtPc, spawnVars, evMutex, bufVars, flagVars, wtMsg, pushArg, histVars,
                   destroy_flag, class_marker, quitPending, classVars, cmdVars, actVars,
                   sizeVars, grpVars, keyVars, rtVars, current_dpi, close_reason, cursor, lateVars>>

\* The discriminant of a CloseReason.
CloseReasonCode(r) ==
    CASE r = "SystemMenu" -> 0 [] r = "KeyboardShortcut" -> 1 [] r = "Unknown" -> 2

SysCommands == {"SC_CLOSE", "SC_MINIMIZE"}

\* window_proc, WM_SYSCOMMAND: SC_CLOSE records the reason, then
\* DefWindowProcW runs the command: for SC_CLOSE it sends WM_CLOSE to the
\* window, so window_proc is entered again from inside this arm.
WM_SYSCOMMAND ==
    /\ Dispatching
    /\ \E wparam \in SysCommands :
         IF wparam = "SC_CLOSE"
           THEN /\ nextSeq < MaxEvents
                /\ close_reason' = "SystemMenu"
                /\ wtPc' = "def_syscommand"
           ELSE UNCHANGED <<close_reason, wtPc>>
    /\ UNCHANGED <<appPc, spawnVars, evMutex, bufVars, flagVars, wtMsg, pushArg, sentMsg,
                   histVars, lifeVars, classVars, cmdVars, actVars, sizeVars, grpVars, keyVars, rtVars, styleVars,
                   style, current_dpi, cursor, sentW, lateVars>>

SysKeyMessages == {"WM_SYSKEYDOWN", "WM_SYSKEYUP"}
SysKeys == {"VK_F4", "VK_F10"}

\* window_proc, WM_SYSKEYDOWN | WM_SYSKEYUP (built without "input", so no
\* key event follows): if wparam & 0xFF == VK_F4 && lparam & (1 << 29) != 0
\* the reason is recorded and SendMessageW(hwnd, WM_CLOSE, 0, 0) enters
\* window_proc again.  alt is bit 29 of lparam: Alt is down.  F4 goes down
\* as a system key only with Alt held, and goes up only after it went down.
WM_SYSKEY ==
    /\ Dispatching
    /\ \E msg \in SysKeyMessages, vk \in SysKeys, alt \in BOOLEAN :
         /\ (vk = "VK_F4" /\ msg = "WM_SYSKEYDOWN") => (~f4_down /\ alt)
         /\ (vk = "VK_F4" /\ msg = "WM_SYSKEYUP") => f4_down
         /\ f4_down' = IF vk = "VK_F4" THEN msg = "WM_SYSKEYDOWN" ELSE f4_down
         /\ keystrokes' = IF vk = "VK_F4" /\ msg = "WM_SYSKEYDOWN"
                            THEN keystrokes + 1 ELSE keystrokes
         /\ IF vk = "VK_F4" /\ alt
              THEN /\ nextSeq < MaxEvents
                   /\ close_reason' = "KeyboardShortcut"
                   /\ wtPc' = "syskey_send"
              ELSE UNCHANGED <<close_reason, wtPc>>
    /\ UNCHANGED <<appPc, spawnVars, evMutex, bufVars, flagVars, wtMsg, pushArg, sentMsg,
                   histVars, lifeVars, classVars, cmdVars, actVars, sizeVars, grpVars, rtVars, styleVars,
                   style, current_dpi, cursor, sentW, lateVars>>

\* Fault: the pending reason is read and left in place.
TakeReason_keeps(option) == option

\* close_reason.take() leaves None behind.
TakeReason(option) == "None"

\* window_proc, WM_CLOSE, from DefWindowProcW or from the message loop:
\* close_reason.take().unwrap_or(Unknown), push CloseRequest(reason).
WM_CLOSE ==
    /\ hwnd = "valid"
    /\ wtPc \in {"loop", "def_syscommand", "syskey_send"}
    /\ LET reason == IF close_reason = "None" THEN "Unknown" ELSE close_reason
       IN  StartPush(Msg("WM_CLOSE", 0, 0), << <<"CloseRequest", CloseReasonCode(reason), 0>> >>)
    /\ close_reason' = TakeReason(close_reason)
    /\ UNCHANGED <<appPc, spawnVars, evMutex, bufVars, flagVars, sentMsg,
                   pushedLog, sincePoll, view, polled, delivered, firstBatches, waited,
                   lifeVars, classVars, cmdVars, actVars, sizeVars, grpVars, keyVars, rtVars, styleVars, style, current_dpi, cursor, sentW, lateVars>>

----------------------------------------------------------------------------
(* Inner size: inner_size, set_inner_size and the arms that answer them    *)

\* WindowImpl::inner_size up to SendMessageW: size and scale are
\* uninitialised, the message carries their addresses; on a hwnd that is
\* no window SendMessageW fails at once (the result is ignored).
InnerSize ==
    /\ appPc = "idle"
    /\ out_size' \in UninitSizes
    /\ out_scale' = UninitScale
    /\ IF hwnd = "valid"
         THEN sentMsg' = "RAMEN_WM_GETINNERSIZE" /\ appPc' = "send_wait"
         ELSE sentMsg' = sentMsg /\ appPc' = "size_ret"
    /\ UNCHANGED <<wtPc, spawnVars, evMutex, bufVars, flagVars, wtMsg, pushArg, histVars,
                   lifeVars, classVars, cmdVars, actVars, fieldVars, grpVars, keyVars, rtVars, styleVars,
                   is_dpi_logical, sentSize, supplied, lateVars>>

\* window_proc, RAMEN_WM_GETINNERSIZE
RAMEN_WM_GETINNERSIZE ==
    /\ Dispatching
    /\ sentMsg = "RAMEN_WM_GETINNERSIZE"
    /\ LET dpi_factor == Scale(current_dpi)
           inner_size == Physical(client_area_size[1], client_area_size[2])
       IN  /\ out_size' = IF is_dpi_logical THEN to_logical(inner_size, dpi_factor)
                                            ELSE inner_size
           /\ out_scale' = dpi_factor
    /\ sentMsg' = "none"
    /\ appPc' = "size_ret"
    /\ UNCHANGED <<wtPc, spawnVars, evMutex, bufVars, flagVars, wtMsg, pushArg, histVars,
                   lifeVars, classVars, cmdVars, actVars, fieldVars, grpVars, keyVars, rtVars, styleVars,
                   is_dpi_logical, sentSize, supplied, lateVars>>

\* (size.assume_init(), scale.assume_init()): inner_size returns what the
\* two cells hold.
InnerSizeReturn ==
    /\ appPc = "size_ret"
    /\ appPc' = "idle"
    /\ out_size' = Physical(0, 0)
    /\ out_scale' = UninitScale
    /\ UNCHANGED <<wtPc, spawnVars, evMutex, bufVars, flagVars, wtMsg, pushArg, sentMsg,
                   histVars, lifeVars, classVars, cmdVars, actVars, fieldVars, grpVars, keyVars, rtVars, styleVars,
                   is_dpi_logical, sentSize, supplied, lateVars>>

\* WindowImpl::set_inner_size: SendMessageW(hwnd, RAMEN_WM_SETINNERSIZE, 0, &size)
SetInnerSize ==
    /\ appPc = "idle"
    /\ \E size \in SuppliedSizes :
         /\ supplied' = size.v
         /\ sentSize' = IF hwnd = "valid" THEN size ELSE sentSize
         /\ requestedSize' = IF hwnd = "valid" THEN NoSize ELSE size
    /\ IF hwnd = "valid"
         THEN sentMsg' = "RAMEN_WM_SETINNERSIZE" /\ appPc' = "send_wait"
         ELSE UNCHANGED <<sentMsg, appPc>>
    /\ UNCHANGED <<wtPc, spawnVars, evMutex, bufVars, flagVars, wtMsg, pushArg, histVars,
                   lifeVars, classVars, cmdVars, actVars, fieldVars, grpVars, keyVars, styleVars,
                   is_dpi_logical, out_size, out_scale, lateVars>>

\* window_proc, RAMEN_WM_SETINNERSIZE: the cached size and the mode are
\* stored, then SetWindowPos(.., owidth, oheight, ..) sends
\* WM_WINDOWPOSCHANGING to the window, whose arm runs inside this one with
\* cx = owidth, cy = oheight and the same frame: it may push a Resize and
\* then stores the size it computed.  frame: what adjust_window_for_dpi
\* adds for the current style and DPI.
RAMEN_WM_SETINNERSIZE ==
    /\ Dispatching
    /\ sentMsg = "RAMEN_WM_SETINNERSIZE"
    /\ is_dpi_logical' = (sentSize.v = "Logical")
    /\ \E width_adj \in FrameSizes, height_adj \in FrameSizes :
         LET inner == as_physical(sentSize, Scale(current_dpi))
             owidth == inner[1] + width_adj
             oheight == inner[2] + height_adj
             new_w == owidth - width_adj
             new_h == oheight - height_adj
         IN  IF owidth # 0 /\ oheight # 0 /\ ResizeAccepted(new_w, new_h)
               THEN /\ client_area_size' = inner
                    /\ StartPush(Msg("RAMEN_WM_SETINNERSIZE", new_w, new_h),
                                 << Resize(Physical(new_w, new_h)) >>)
                    /\ UNCHANGED <<appPc, sentMsg, requestedSize>>
               ELSE /\ client_area_size' = inner
                    /\ sentMsg' = "none"
                    /\ appPc' = "idle"
                    /\ requestedSize' = sentSize
                    /\ UNCHANGED <<wtPc, wtMsg, pushArg, nextSeq>>
    /\ UNCHANGED <<spawnVars, evMutex, bufVars, is_focused, is_maximized, is_minimized,
                   pushedLog, sincePoll, view, polled, delivered, firstBatches, waited,
                   lifeVars, classVars, cmdVars, actVars, fieldVars, grpVars, keyVars, styleVars,
                   sentSize, out_size, out_scale, supplied, lateVars>>

----------------------------------------------------------------------------
(* Teardown: Drop, RAMEN_WM_DROP, the HCBT_DESTROYWND hook, WM_DESTROY     *)

\* impl Drop for WindowImpl, first statement: post the destroy command.
Drop ==
    /\ appPc = "idle"
    /\ posted' = PostMessageW(posted, Msg("RAMEN_WM_DROP", 0, 0))
    /\ appPc' = "join"
    /\ UNCHANGED <<wtPc, spawnVars, evMutex, bufVars, flagVars, wtMsg, pushArg, sentMsg,
                   histVars, destroy_flag, class_marker, quitPending, classVars, newVars, cmdVars>>

\* self.thread.take().map(JoinHandle::join): returns when the thread function has.
Join ==
    /\ appPc = "join"
    /\ wtPc = "exited"
    /\ appPc' = "dropped"
    /\ UNCHANGED <<wtPc, spawnVars, evMutex, bufVars, flagVars, wtMsg, pushArg, sentMsg,
                   histVars, extVars>>

\* The hook's answer for a window whose class data is (not) the marker and
\* whose destroy flag is `flag`.
hcbt_destroywnd_hookproc(marker, flag) ==
    IF marker THEN (IF flag THEN "allow" ELSE "prevent") ELSE "forward"

\* DestroyWindow goes on unless a hook prevents it (no other hook is
\* installed: CallNextHookEx returns 0).
DestroyAllowed(marker, flag) == hcbt_destroywnd_hookproc(marker, flag) # "prevent"

\* window_proc, WM_DESTROY: whether PostQuitMessage(0) is called.
WM_DESTROY(flag) == flag

\* Fault: DestroyWindow is called before the flag is stored.
DropFlagAtDestroy_late(flag) == flag

\* The flag the hook and WM_DESTROY read during the DestroyWindow call of
\* RAMEN_WM_DROP: the store comes first.
DropFlagAtDestroy(flag) == TRUE

\* Fault: the RAMEN_WM_DROP arm does not store the flag.
StoreDestroyFlag_skipped(flag) == flag

\* destroy_flag.store(true, Release): the value of the flag after the store.
StoreDestroyFlag(flag) == TRUE

\* window_proc, RAMEN_WM_DROP: store the flag, then DestroyWindow(hwnd),
\* which runs the hook and, if allowed, WM_DESTROY before it returns.
RAMEN_WM_DROP ==
    /\ Retrieving("RAMEN_WM_DROP")
    /\ hwnd = "valid"
    /\ destroy_flag' = StoreDestroyFlag(destroy_flag)
    /\ LET flag == DropFlagAtDestroy(destroy_flag)
       IN  IF DestroyAllowed(class_marker, flag)
             THEN /\ hwnd' = "destroyed"
                  /\ quitPending' = (quitPending \/ WM_DESTROY(flag))
                  /\ posted' = <<>>
             ELSE /\ hwnd' = hwnd
                  /\ quitPending' = quitPending
                  /\ posted' = Tail(posted)
    /\ UNCHANGED <<appPc, wtPc, recv, recvMutex, createError, evMutex, bufVars, flagVars,
                   wtMsg, pushArg, sentMsg, histVars, class_marker, classVars, newVars, cmdVars>>

\* A WM_QUIT that does not come from WM_DESTROY: PostQuitMessage called by
\* other code running on the window thread, or WM_QUIT posted to the thread.
StrayQuit ==
    /\ wtPc = "loop"
    /\ ~quitPending
    /\ quitPending' = TRUE
    /\ UNCHANGED <<progVars, histVars, destroy_flag, class_marker, posted, classVars, newVars, cmdVars>>

\* GetMessageW returns 0: break if the destroy flag is set (the hook is
\* removed and the thread function returns), else keep looping.
GetMessageQuit ==
    /\ wtPc = "loop"
    /\ ~SentPending
    /\ posted = <<>>
    /\ quitPending
    /\ quitPending' = FALSE
    /\ wtPc' = IF destroy_flag THEN "exited" ELSE "loop"
    /\ UNCHANGED <<appPc, spawnVars, evMutex, bufVars, flagVars, wtMsg, pushArg, sentMsg,
                   histVars, destroy_flag, class_marker, posted, classVars, newVars, cmdVars>>

----------------------------------------------------------------------------
(* Keyboard messages, in a build with the "input" feature                  *)

VK_SHIFT == 16
VK_CONTROL == 17
VK_MENU == 18
VK_F10 == 121

\* The scan code extend_key takes for the right shift key.
RightShiftScan == 54

\* The LPARAM of a key message, as the two 16-bit halves <<high, low>> of
\* its low 32 bits: bits 16-23 are the scan code, bit 24 the extended
\* flag, bit 29 the context code (Alt is down), bit 30 the previous key
\* state, bit 31 the transition state; the low half is the repeat count.
KeyLParam(scancode, extended, alt, previous, transition) ==
    <<scancode + 256 * BoolInt(extended) + 8192 * BoolInt(alt)
        + 16384 * BoolInt(previous) + 32768 * BoolInt(transition), 1>>

\* lparam & (1 << n) != 0, for 16 <= n <= 31
LParamBit(lparam, n) == (lparam[1] \div (2 ^ (n - 16))) % 2 # 0

\* translate_vk: the rows of the table for the keys of the model; 0x07 is
\* one of the codes the table maps to None.
translate_vk(wparam) ==
    LET vk == wparam % 256
    IN  CASE vk = VK_SHIFT -> Some("LShift")
          [] vk = VK_CONTROL -> Some("LControl")
          [] vk = VK_MENU -> Some("LAlt")
          [] vk = VK_F10 -> Some("F10")
          [] OTHER -> None

\* extend_key
extend_key(key, lparam) ==
    LET scancode == lparam[1] % 256
        extended_bit == LParamBit(lparam, 24)
    IN  CASE key = "LShift" /\ scancode = RightShiftScan -> "RShift"
          [] key = "LControl" /\ extended_bit -> "RControl"
          [] key = "LAlt" /\ extended_bit -> "RAlt"
          [] OTHER -> key

\* Fault: the previous-state bit is tested before the transition bit.
map_tr_state_previousFirst(key, lparam) ==
    IF LParamBit(lparam, 30)
      THEN <<"KeyboardRepeat", key, 0>>
      ELSE IF ~LParamBit(lparam, 31)
             THEN <<"KeyboardDown", key, 0>>
             ELSE <<"KeyboardUp", key, 0>>

\* map_tr_state
map_tr_state(key, lparam) ==
    IF ~LParamBit(lparam, 31)
      THEN IF LParamBit(lparam, 30)
             THEN <<"KeyboardRepeat", key, 0>>
             ELSE <<"KeyboardDown", key, 0>>
      ELSE <<"KeyboardUp", key, 0>>

\* sys_key_event
sys_key_event(wparam, lparam) ==
    LET alt_bit == LParamBit(lparam, 29)
        transition_state == LParamBit(lparam, 31)
    IN  IF wparam % 256 # VK_F10 /\ ~alt_bit /\ ~transition_state
          THEN None
          ELSE IF translate_vk(wparam) = None
                 THEN None
                 ELSE Some(map_tr_state(extend_key(translate_vk(wparam)[1], lparam), lparam))

\* The key messages the model draws, as <<virtual key, scan code>>: the
\* generic shift (left and right), control and Alt keys, F10 and a code
\* that is no key, each with every combination of the flags.
KeyStrokes == {<<VK_SHIFT, 42>>, <<VK_SHIFT, RightShiftScan>>, <<VK_CONTROL, 29>>,
               <<VK_MENU, 56>>, <<VK_F10, 68>>, <<7, 0>>}

\* The window thread handles an input message that yields the event
\* option: push_event(event) if there is one, else the arm returns.
HandleInput(kind, wparam, lparam, drawn, option) ==
    /\ Dispatching
    /\ inputCount < MaxInputs
    /\ inputCount' = inputCount + 1
    /\ lastInput' = [kind |-> kind, wparam |-> wparam, lparam |-> lparam,
                     drawn |-> drawn, event |-> option]
    /\ IF option # None
         THEN StartPush(Msg(kind, wparam, lparam), <<option[1]>>)
         ELSE UNCHANGED <<wtPc, wtMsg, pushArg, nextSeq>>
    /\ UNCHANGED <<appPc, spawnVars, evMutex, bufVars, flagVars, sentMsg,
                   pushedLog, sincePoll, view, polled, delivered, firstBatches, waited>>
    /\ UNCHANGED <<lifeVars, classVars, cmdVars, actVars, fieldVars, sizeVars, grpVars,
                   keyVars, rtVars, styleVars, cells, callers>>

\* window_proc, WM_KEYDOWN | WM_KEYUP
WM_KEY ==
    \E key \in KeyStrokes,
       extended \in BOOLEAN, previous \in BOOLEAN, transition \in BOOLEAN :
      LET vk == key[1]
          scancode == key[2]
          wparam == vk
          lparam == KeyLParam(scancode, extended, FALSE, previous, transition)
          drawn == <<vk, scancode, extended, FALSE, previous, transition>>
      IN  HandleInput("WM_KEY", wparam, lparam, drawn,
                      IF translate_vk(wparam) # None
                        THEN Some(map_tr_state(extend_key(translate_vk(wparam)[1], lparam),
                                               lparam))
                        ELSE None)

\* window_proc, WM_SYSKEYDOWN | WM_SYSKEYUP with the "input" feature, for
\* keys other than F4 (the Alt+F4 branch is not taken): the event of
\* sys_key_event, if any, is pushed.
WM_SYSKEY_Input ==
    \E key \in KeyStrokes, extended \in BOOLEAN,
       alt \in BOOLEAN, previous \in BOOLEAN, transition \in BOOLEAN :
      LET vk == key[1]
          scancode == key[2]
          wparam == vk
          lparam == KeyLParam(scancode, extended, alt, previous, transition)
          drawn == <<vk, scancode, extended, alt, previous, transition>>
      IN  HandleInput("WM_SYSKEY", wparam, lparam, drawn, sys_key_event(wparam, lparam))

----------------------------------------------------------------------------
(* Mouse messages, in a build with the "input" feature                     *)

XBUTTON1 == 1
XBUTTON2 == 2

\* A 16-bit word holding the signed value n, and `word as c_short`.
WordOf(n) == IF n < 0 THEN n + 65536 ELSE n
as_c_short(word) == IF word >= 32768 THEN word - 65536 ELSE word

\* The discriminant of a MouseButton.
MouseButton(name) ==
    CASE name = "Left" -> 0 [] name = "Right" -> 1 [] name = "Middle" -> 2
      [] name = "Mouse4" -> 3 [] name = "Mouse5" -> 4

\* Event::MouseMove((point, scale)): a and b are the point, v its variant.
MouseMove(point) == <<"MouseMove", point.w, point.h, point.v>>

\* Fault: the right and bottom edges are taken to be inside.
InClientArea_inclusive(x, y, cw, ch) == x >= 0 /\ x <= cw /\ y >= 0 /\ y <= ch

\* if x >= 0 && (x as u32) < cw && y >= 0 && (y as u32) < ch
InClientArea(x, y, cw, ch) == x >= 0 /\ x < cw /\ y >= 0 /\ y < ch

\* The coordinates, wheel deltas and X-button sub-codes the model draws.
MouseCoords == {-1, 0, 1, 2}
WheelDeltas == {-120, 0, 120}
XButtonCodes == {0, XBUTTON1, XBUTTON2, 3}

\* window_proc, WM_MOUSEMOVE: lparam is <<high word, low word>>.
WM_MOUSEMOVE ==
    \E mx \in MouseCoords, my \in MouseCoords :
      LET lparam == <<WordOf(my), WordOf(mx)>>
          cw == client_area_size[1]
          ch == client_area_size[2]
          x == as_c_short(lparam[2])
          y == as_c_short(lparam[1])
          point == Physical(x, y)
          dpi_scale == Scale(current_dpi)
      IN  HandleInput("WM_MOUSEMOVE", <<0, 0>>, lparam, <<mx, my>>,
                      IF InClientArea(x, y, cw, ch)
                        THEN Some(MouseMove(IF is_dpi_logical
                                              THEN to_logical(point, dpi_scale)
                                              ELSE point))
                        ELSE None)

\* window_proc, WM_XBUTTONDOWN | WM_XBUTTONUP: the high word of wparam
\* says which X button it is.
WM_XBUTTON ==
    \E ev \in {"WM_XBUTTONDOWN", "WM_XBUTTONUP"}, code \in XButtonCodes :
      LET wparam == <<code, 0>>
          event == IF ev = "WM_XBUTTONDOWN" THEN "MouseDown" ELSE "MouseUp"
          hiword == wparam[1]
      IN  HandleInput(ev, wparam, <<0, 0>>, <<code>>,
                      CASE hiword = XBUTTON1 -> Some(<<event, MouseButton("Mouse4"), 0>>)
                        [] hiword = XBUTTON2 -> Some(<<event, MouseButton("Mouse5"), 0>>)
                        [] OTHER -> None)

\* window_proc, WM_MOUSEWHEEL: the high word of wparam is the signed delta.
WM_MOUSEWHEEL ==
    \E d \in WheelDeltas :
      LET wparam == <<WordOf(d), 0>>
          delta == as_c_short(wparam[1])
      IN  HandleInput("WM_MOUSEWHEEL", wparam, <<0, 0>>, <<d>>,
                      IF delta # 0 THEN Some(<<"MouseWheel", delta, 0>>) ELSE None)

----------------------------------------------------------------------------
(* LazyCell<T, F>: WIN32 and CLASS_REGISTRY_LOCK, used by every window thread *)

otherThanLate == <<progVars, histVars, lifeVars, classVars, cmdVars, actVars, fieldVars,
                   sizeVars, grpVars, keyVars, rtVars, styleVars, lastInput, inputCount>>

\* LazyCell::get, entry: the thread t calls self.once.call_once(closure).
LazyCell_get(t, c) ==
    /\ callers[t].pc = "idle"
    /\ callers' = [callers EXCEPT ![t].pc = "call_once", ![t].cell = c]
    /\ UNCHANGED <<cells, otherThanLate>>

\* Fault: a caller that finds the initialisation running runs the closure too.
call_once_runs_racy(once) == once # "COMPLETE"

\* Once::call_once runs the closure in the one caller that finds the Once new.
call_once_runs(once) == once = "INCOMPLETE"

\* Once::call_once: the caller that finds the Once new runs the closure;
\* one that finds it running blocks; one that finds it complete returns.
call_once(t) ==
    LET c == callers[t].cell
    IN  /\ callers[t].pc = "call_once"
        /\ IF call_once_runs(cells[c].once)
             THEN /\ cells' = [cells EXCEPT ![c].once = "RUNNING"]
                  /\ callers' = [callers EXCEPT ![t].pc = "closure"]
             ELSE /\ cells' = cells
                  /\ callers' = [callers EXCEPT ![t].pc =
                                   IF cells[c].once = "COMPLETE" THEN "deref" ELSE "once_wait"]
        /\ UNCHANGED otherThanLate

\* The closure: if let Some(f) = init.take() { Box::into_raw(Box::new(f())) ...
\* the initialiser runs and its value is boxed.
closure_take(t) ==
    LET c == callers[t].cell
    IN  /\ callers[t].pc = "closure"
        /\ IF cells[c].init # None
             THEN /\ cells' = [cells EXCEPT ![c].init = None, ![c].runs = @ + 1]
                  /\ callers' = [callers EXCEPT ![t].pc = "write"]
             ELSE /\ cells' = cells
                  /\ callers' = [callers EXCEPT ![t].pc = "complete"]
        /\ UNCHANGED otherThanLate

\* ... ptr::write(self.ptr.get(), pointer) }
closure_write(t) ==
    LET c == callers[t].cell
    IN  /\ callers[t].pc = "write"
        /\ cells' = [cells EXCEPT ![c].ptr = cells[c].runs]
        /\ callers' = [callers EXCEPT ![t].pc = "complete"]
        /\ UNCHANGED otherThanLate

\* The closure has returned: the Once is complete, call_once returns.
call_once_done(t) ==
    LET c == callers[t].cell
    IN  /\ callers[t].pc = "complete"
        /\ cells' = [cells EXCEPT ![c].once = "COMPLETE"]
        /\ callers' = [callers EXCEPT ![t].pc = "deref"]
        /\ UNCHANGED otherThanLate

\* A blocked caller is released when the Once is complete.
call_once_wake(t) ==
    LET c == callers[t].cell
    IN  /\ callers[t].pc = "once_wait"
        /\ cells[c].once = "COMPLETE"
        /\ callers' = [callers EXCEPT ![t].pc = "deref"]
        /\ UNCHANGED <<cells, otherThanLate>>

\* &**self.ptr.get(): the reference get() returns.  Dereferencing the null
\* pointer is undefined: the caller may see a null or a wild reference (-1).
LazyCell_deref(t) ==
    LET c == callers[t].cell
    IN  /\ callers[t].pc = "deref"
        /\ \E r \in (IF cells[c].ptr = NullPtr THEN {NullPtr, -1} ELSE {cells[c].ptr}) :
             callers' = [callers EXCEPT ![t].pc = "idle", ![t].cell = "none",
                                        ![t].got[c] = Some(r)]
        /\ UNCHANGED <<cells, otherThanLate>>

\* The threads of the process calling get() on the statics, in any order
\* and any number of times.
CellNext ==
    \E t \in Spawners :
        \/ \E c \in Statics : LazyCell_get(t, c)
        \/ call_once(t) \/ closure_take(t) \/ closure_write(t)
        \/ call_once_done(t) \/ call_once_wake(t) \/ LazyCell_deref(t)

CellSpec == Init /\ [][CellNext]_vars

----------------------------------------------------------------------------
AppStep ==
    \/ SpawnThread \/ SpawnLock \/ SpawnTake \/ SpawnWait \/ SpawnSpuriousWake
    \/ SwapCall \/ SwapLock \/ SwapBody \/ SendMessage \/ ExecuteReturn

WtStep ==
    \/ CreateWindow \/ PublishLock \/ Publish
    \/ WM_SETFOCUS \/ WM_KILLFOCUS \/ WM_SIZE \/ WM_WINDOWPOSCHANGING
    \/ RAMEN_WM_EXECUTE
    \/ PushLock \/ PushAppend \/ PushBlock \/ PushSpuriousWake

Next == AppStep \/ WtStep

Spec == Init /\ [][Next]_vars

\* Scheduling: a thread that can take a step of the call it is in takes it;
\* a thread waiting for a mutex gets it if it is free again and again.
\* Nothing forces a message to arrive, a poll or a command to be issued, or
\* a condition variable to wake without a notification.
Fairness ==
    /\ WF_vars(SpawnTake) /\ WF_vars(SpawnWait) /\ SF_vars(SpawnLock)
    /\ WF_vars(CreateWindow) /\ SF_vars(PublishLock) /\ WF_vars(Publish)
    /\ SF_vars(SwapLock) /\ WF_vars(SwapBody)
    /\ SF_vars(PushLock) /\ WF_vars(PushAppend) /\ WF_vars(PushBlock)
    /\ WF_vars(RAMEN_WM_EXECUTE) /\ WF_vars(ExecuteReturn)

FairSpec == Spec /\ Fairness

----------------------------------------------------------------------------
(* Several window threads whose windows share one class name: the class    *)
(* registration at the head of the thread function, the marker and the     *)
(* hook, and what a DestroyWindow on each window then does.  Publishing    *)
(* the handle and the events of each window are as in the one-window       *)
(* specifications and are left out here.                                   *)

otherVars == <<progVars, histVars, destroy_flag, posted, quitPending, cmdVars, newVars>>

\* Fault: the registry lock is not taken.
ClassLockFree_ignored == TRUE

ClassLockFree == class_registry_lock = 0

\* sync::mutex_lock(CLASS_REGISTRY_LOCK.get())
ClassLock(t) ==
    /\ cpc[t] = "class_lock"
    /\ ClassLockFree
    /\ class_registry_lock' = t
    /\ cpc' = [cpc EXCEPT ![t] = "class_query"]
    /\ UNCHANGED <<otherVars, class_marker, class_registered, register_calls,
                   class_created_this_thread, chwnd, cflag>>

\* if GetClassInfoExW(..) == 0 { class_created_this_thread = true; .. }
GetClassInfoExW(t) ==
    /\ cpc[t] = "class_query"
    /\ class_created_this_thread' =
         [class_created_this_thread EXCEPT ![t] = ~class_registered]
    /\ cpc' = [cpc EXCEPT ![t] = IF class_registered THEN "class_unlock" ELSE "class_register"]
    /\ UNCHANGED <<otherVars, class_marker, class_registry_lock, class_registered,
                   register_calls, chwnd, cflag>>

\* let _ = RegisterClassExW(class)
RegisterClassExW(t) ==
    /\ cpc[t] = "class_register"
    /\ class_registered' = TRUE
    /\ register_calls' = register_calls + 1
    /\ cpc' = [cpc EXCEPT ![t] = "class_unlock"]
    /\ UNCHANGED <<otherVars, class_marker, class_registry_lock,
                   class_created_this_thread, chwnd, cflag>>

\* mem::drop(class_registry_lock)
ClassUnlock(t) ==
    /\ cpc[t] = "class_unlock"
    /\ class_registry_lock' = 0
    /\ cpc' = [cpc EXCEPT ![t] = "create"]
    /\ UNCHANGED <<otherVars, class_marker, class_registered, register_calls,
                   class_created_this_thread, chwnd, cflag>>

\* CreateWindowExW, then the publish of the handle.
ClassCreateWindow(t) ==
    /\ cpc[t] = "create"
    /\ \E h \in {"valid", "null"} : chwnd' = [chwnd EXCEPT ![t] = h]
    /\ cpc' = [cpc EXCEPT ![t] = "set_marker"]
    /\ UNCHANGED <<otherVars, class_marker, class_registry_lock, class_registered,
                   register_calls, class_created_this_thread, cflag>>

\* if class_created_this_thread { set_class_data(hwnd, 0, marker) }, then
\* SetWindowsHookExW and into the message loop.
SetMarkerAndHook(t) ==
    /\ cpc[t] = "set_marker"
    /\ class_marker' = (class_marker \/ (class_created_this_thread[t] /\ chwnd[t] = "valid"))
    /\ cpc' = [cpc EXCEPT ![t] = "loop"]
    /\ UNCHANGED <<otherVars, class_registry_lock, class_registered, register_calls,
                   class_created_this_thread, chwnd, cflag>>

\* DestroyWindow(hwnd) called on the window thread by code other than the
\* RAMEN_WM_DROP arm: the hook decides; WM_DESTROY follows if it goes on.
DestroyAttempt(t) ==
    /\ cpc[t] = "loop"
    /\ chwnd[t] = "valid"
    /\ IF DestroyAllowed(class_marker, cflag[t])
         THEN /\ chwnd' = [chwnd EXCEPT ![t] = "destroyed"]
              /\ cpc' = [cpc EXCEPT ![t] = IF WM_DESTROY(cflag[t]) THEN "quit" ELSE "loop"]
         ELSE UNCHANGED <<chwnd, cpc>>
    /\ UNCHANGED <<otherVars, class_marker, class_registry_lock, class_registered,
                   register_calls, class_created_this_thread, cflag>>

\* RAMEN_WM_DROP for the window of thread t (posted by the Drop of its handle).
ClassDrop(t) ==
    /\ cpc[t] = "loop"
    /\ chwnd[t] = "valid"
    /\ cflag' = [cflag EXCEPT ![t] = TRUE]
    /\ LET flag == DropFlagAtDestroy(cflag[t])
       IN  IF DestroyAllowed(class_marker, flag)
             THEN /\ chwnd' = [chwnd EXCEPT ![t] = "destroyed"]
                  /\ cpc' = [cpc EXCEPT ![t] = IF WM_DESTROY(flag) THEN "quit" ELSE "loop"]
             ELSE UNCHANGED <<chwnd, cpc>>
    /\ UNCHANGED <<otherVars, class_marker, class_registry_lock, class_registered,
                   register_calls, class_created_this_thread>>

\* GetMessageW returns 0 with the flag set: the thread function returns.
ClassQuit(t) ==
    /\ cpc[t] = "quit"
    /\ cpc' = [cpc EXCEPT ![t] = IF cflag[t] THEN "exited" ELSE "loop"]
    /\ UNCHANGED <<otherVars, class_marker, class_registry_lock, class_registered,
                   register_calls, class_created_this_thread, chwnd, cflag>>

ClassNext ==
    \E t \in Spawners :
        \/ ClassLock(t) \/ GetClassInfoExW(t) \/ RegisterClassExW(t) \/ ClassUnlock(t)
        \/ ClassCreateWindow(t) \/ SetMarkerAndHook(t)
        \/ DestroyAttempt(t) \/ ClassDrop(t) \/ ClassQuit(t)

ClassSpec == Init /\ [][ClassNext]_vars

\* The life of one window, from spawn_window to the end of Drop: the focus
\* messages stand for the event producers.
LifeAppStep ==
    \/ SpawnThread \/ SpawnLock \/ SpawnTake \/ SpawnWait \/ SpawnSpuriousWake
    \/ SwapCall \/ SwapLock \/ SwapBody \/ SendMessage \/ ExecuteReturn
    \/ Drop \/ Join

LifeWtStep ==
    \/ CreateWindow \/ PublishLock \/ Publish
    \/ WM_SETFOCUS \/ WM_KILLFOCUS
    \/ RAMEN_WM_EXECUTE
    \/ PushLock \/ PushAppend \/ PushBlock \/ PushSpuriousWake
    \/ RAMEN_WM_DROP \/ StrayQuit \/ GetMessageQuit

LifeNext == LifeAppStep \/ LifeWtStep

LifeSpec == Init /\ [][LifeNext]_vars

\* As Fairness; the window thread also keeps taking messages out of its
\* queue, and the dropping thread returns from a join that can return.
LifeFairness ==
    /\ Fairness
    /\ WF_vars(RAMEN_WM_DROP) /\ WF_vars(GetMessageQuit) /\ WF_vars(Join)

FairLifeSpec == LifeSpec /\ LifeFairness

\* The life of one window with the activation messages.
FocusNext == LifeNext \/ WM_ACTIVATE \/ WM_ACTIVATEAPP

FocusSpec == Init /\ [][FocusNext]_vars

\* One window with the arms of window_proc that write the cached fields,
\* and the cursor and style commands; the events are pushed and not polled
\* (swap_events is in Spec and LifeSpec).
FieldAppStep ==
    \/ SpawnThread \/ SpawnLock \/ SpawnTake \/ SpawnWait \/ SpawnSpuriousWake
    \/ SetCursor \/ SetCursorAsync \/ SetResizable \/ SetResizableAsync

FieldWtStep ==
    \/ CreateWindow \/ PublishLock \/ Publish
    \/ WM_SETFOCUS \/ WM_KILLFOCUS \/ WM_SIZE \/ WM_WINDOWPOSCHANGING
    \/ WM_SYSCOMMAND \/ WM_CLOSE
    \/ RAMEN_WM_SETCURSOR \/ RAMEN_WM_SETTHICKFRAME
    \/ PushLock \/ PushAppend \/ PushBlock \/ PushSpuriousWake

FieldNext == FieldAppStep \/ FieldWtStep

FieldSpec == Init /\ [][FieldNext]_vars

\* One window with its inner size: the queries, the requests, the
\* position notifications and the polls.
SizeAppStep ==
    \/ SpawnThread \/ SpawnLock \/ SpawnTake \/ SpawnWait \/ SpawnSpuriousWake
    \/ SwapCall \/ SwapLock \/ SwapBody
    \/ InnerSize \/ InnerSizeReturn \/ SetInnerSize

SizeWtStep ==
    \/ CreateWindow \/ PublishLock \/ Publish
    \/ WM_WINDOWPOSCHANGING
    \/ RAMEN_WM_GETINNERSIZE \/ RAMEN_WM_SETINNERSIZE
    \/ PushLock \/ PushAppend \/ PushBlock \/ PushSpuriousWake

SizeNext == SizeAppStep \/ SizeWtStep

SizeSpec == Init /\ [][SizeNext]_vars

\* One window with its maximize commands, the size notifications and the polls.
MaxAppStep ==
    \/ SpawnThread \/ SpawnLock \/ SpawnTake \/ SpawnWait \/ SpawnSpuriousWake
    \/ SwapCall \/ SwapLock \/ SwapBody
    \/ SetMaximized \/ SetMaximizedAsync

MaxWtStep ==
    \/ CreateWindow \/ PublishLock \/ Publish
    \/ WM_SIZE
    \/ RAMEN_WM_SETMAXIMIZED \/ SetMaximizedPush
    \/ PushLock \/ PushAppend \/ PushBlock \/ PushSpuriousWake

MaxNext == MaxAppStep \/ MaxWtStep

MaxSpec == Init /\ [][MaxNext]_vars

\* The life of one window with the close requests and their causes.
CloseNext ==
    \/ SpawnThread \/ SpawnLock \/ SpawnTake \/ SpawnWait \/ SpawnSpuriousWake
    \/ SwapCall \/ SwapLock \/ SwapBody
    \/ Drop \/ Join
    \/ CreateWindow \/ PublishLock \/ Publish
    \/ WM_SYSCOMMAND \/ WM_SYSKEY \/ WM_CLOSE
    \/ PushLock \/ PushAppend \/ PushBlock \/ PushSpuriousWake
    \/ RAMEN_WM_DROP \/ GetMessageQuit

CloseSpec == Init /\ [][CloseNext]_vars

\* One window of a build with the "input" feature and its key messages.
KeyNext ==
    \/ SpawnThread \/ SpawnLock \/ SpawnTake \/ SpawnWait \/ SpawnSpuriousWake
    \/ CreateWindow \/ PublishLock \/ Publish
    \/ WM_KEY \/ WM_SYSKEY_Input
    \/ PushLock \/ PushAppend

KeySpec == Init /\ [][KeyNext]_vars

\* One window of a build with the "input" feature, its mouse messages and
\* the changes of its client area.
MouseNext ==
    \/ SpawnThread \/ SpawnLock \/ SpawnTake \/ SpawnWait \/ SpawnSpuriousWake
    \/ SetInnerSize
    \/ CreateWindow \/ PublishLock \/ Publish
    \/ WM_WINDOWPOSCHANGING \/ RAMEN_WM_SETINNERSIZE
    \/ WM_MOUSEMOVE \/ WM_XBUTTON \/ WM_MOUSEWHEEL
    \/ PushLock \/ PushAppend \/ PushBlock \/ PushSpuriousWake

MouseSpec == Init /\ [][MouseNext]_vars

\* One window built with any controls, and its visibility and style commands.
StyleAppStep ==
    \/ SpawnThread \/ SpawnLock \/ SpawnTake \/ SpawnWait \/ SpawnSpuriousWake
    \/ SetVisible \/ SetVisibleAsync
    \/ SetResizable \/ SetResizableAsync
    \/ SetControls \/ SetControlsAsync

StyleWtStep ==
    \/ CreateWindowBuilt \/ PublishLock \/ Publish
    \/ WM_SHOWWINDOW
    \/ RAMEN_WM_SETTHICKFRAME \/ RAMEN_WM_SETCONTROLS

StyleNext == StyleAppStep \/ StyleWtStep

StyleSpec == Init /\ [][StyleNext]_vars

\* The title commands of one window, from spawn_window to the end of Drop.
TitleAppStep ==
    \/ SpawnThread \/ SpawnLock \/ SpawnTake \/ SpawnWait \/ SpawnSpuriousWake
    \/ SetTitleAsync \/ SetTitle
    \/ Drop \/ Join

TitleWtStep ==
    \/ CreateWindow \/ PublishLock \/ Publish
    \/ RAMEN_WM_SETTEXT_ASYNC \/ WM_SETTEXT
    \/ RAMEN_WM_DROP \/ GetMessageQuit

TitleNext == TitleAppStep \/ TitleWtStep

TitleSpec == Init /\ [][TitleNext]_vars

----------------------------------------------------------------------------
(* Properties                                                              *)

\* The step in which swap_events does its work and returns.
SwapReturns == appPc = "swap_body" /\ appPc' = "idle"

IsPrefix(s, t) == Len(s) <= Len(t) /\ \A i \in 1..Len(s) : s[i] = t[i]

\* C1: the concatenation of the batches exposed by events() after the
\* successive swaps lists the events in the order their pushes returned:
\* it is a prefix of the push log, so no event precedes an earlier one,
\* inside a batch or across batches.
C1_PushOrderKept ==
    /\ IsPrefix(delivered, pushedLog)
    /\ \A i, j \in 1..Len(delivered) : i < j => delivered[i].seq < delivered[j].seq

\* Three events have been exposed, in two batches.
C1_Witness ==
    /\ Len(delivered) = MAX_EVENTS_PER_SWAP + 1
    /\ Len(firstBatches) = 2
    /\ Len(firstBatches[2]) >= 2

\* C2: every event whose push has returned is in exactly one batch, the one
\* exposed by the first swap that completes after the push: the batch a
\* swap exposes is exactly what was pushed since the previous swap, and at
\* any time the pushed events are the exposed ones followed by the ones the
\* write buffer holds for the next swap.
C2_NoLossNoDuplicate ==
    /\ view = polled
    /\ ActiveBuf = sincePoll
    /\ delivered \o sincePoll = pushedLog
    /\ \A i, j \in 1..Len(pushedLog) : pushedLog[i] = pushedLog[j] => i = j

\* A batch was exposed, a later swap exposed another one, and more events
\* are waiting for the next swap.
C2_Witness ==
    /\ Len(delivered) > Len(view)
    /\ view # <<>>
    /\ sincePoll # <<>>

\* Everything the window thread has created, in order of creation.
Created == pushedLog \o pushArg

\* C3: with capacity N, a push that finds the buffer full waits and changes
\* nothing: each created event is in exactly one place (exposed, in the
\* write buffer, or still the argument of the waiting push), with the
\* payload it was created with.  When N events filled the buffer before the
\* first non-empty poll, event N+1 heads the next non-empty poll: the N+1
\* events are the first N+1 of those two batches, in order.
C3_Backpressure ==
    /\ delivered \o ActiveBuf \o pushArg = Created
    /\ Seqs(Created) = [i \in 1..nextSeq |-> i]
    /\ wtPc = "push_wait" => pushArg # <<>> /\ ev_buf_sync
    /\ (Len(firstBatches) = 2 /\ Len(firstBatches[1]) = MAX_EVENTS_PER_SWAP)
         => SubSeq(firstBatches[1] \o firstBatches[2], 1, MAX_EVENTS_PER_SWAP + 1)
              = SubSeq(pushedLog, 1, MAX_EVENTS_PER_SWAP + 1)

\* The push of event N+1 waited behind N unpolled events, and two polls
\* have delivered all N+1.
C3_Witness ==
    /\ (MAX_EVENTS_PER_SWAP + 1) \in waited
    /\ Len(firstBatches) = 2
    /\ Len(firstBatches[1]) = MAX_EVENTS_PER_SWAP
    /\ Len(delivered) = MAX_EVENTS_PER_SWAP + 1

\* C4: each buffer holds at most N events, and push_many either appends the
\* whole batch (when it fits) or leaves the buffer as it is.
C4_Capacity ==
    /\ Len(ev_buf_primary) <= MAX_EVENTS_PER_SWAP
    /\ Len(ev_buf_secondary) <= MAX_EVENTS_PER_SWAP
    /\ wtPc = "push_loop" =>
         LET r == FixedVec_push_many(ActiveBuf, pushArg)
         IN  /\ Len(r) <= MAX_EVENTS_PER_SWAP
             /\ r = IF Len(ActiveBuf) + Len(pushArg) <= MAX_EVENTS_PER_SWAP
                      THEN ActiveBuf \o pushArg ELSE ActiveBuf

\* push_many is called on a full buffer with a non-empty batch.
C4_Witness ==
    /\ wtPc = "push_loop"
    /\ Len(ActiveBuf) = MAX_EVENTS_PER_SWAP
    /\ pushArg # <<>>
    /\ ~ev_buf_sync

\* C5: the slice events() returns changes only in the step in which
\* swap_events returns: no push, whenever it runs, alters the exposed batch.
C5_ExposedBatchStable == [][SwapReturns \/ events' = events]_vars

\* A push has completed while a non-empty batch was exposed.
C5_Witness ==
    /\ view # <<>>
    /\ events = view
    /\ sincePoll # <<>>

\* C6: a poll with no push since the previous poll exposes the empty slice,
\* and a poll after the pushes of Focus(true) and Resize exposes exactly
\* these two, in this order.
C6_IdleSwapIsEmpty ==
    [][SwapReturns =>
         /\ sincePoll = <<>> => events' = <<>>
         /\ Payloads(sincePoll) = << <<"Focus", 1, 0>>, <<"Resize", 1, 1>> >>
              => Payloads(events') = << <<"Focus", 1, 0>>, <<"Resize", 1, 1>> >>]_vars

\* The first poll returned [Focus(true), Resize], the second one nothing.
C6_Witness ==
    /\ Payloads(delivered) = << <<"Focus", 1, 0>>, <<"Resize", 1, 1>> >>
    /\ Len(firstBatches) = 1
    /\ Len(firstBatches[1]) = 2
    /\ view = <<>>
    /\ pushedLog = delivered
    /\ ev_buf_is_primary

\* C7: no state has the caller of a synchronous command waiting in
\* SendMessageW while the window thread waits on the event-buffer condition
\* variable for a swap that only this caller could perform.
C7_NoCommandDeadlock == ~(appPc = "send_wait" /\ wtPc = "push_wait")

\* C8: swap_events never waits for the producer to make progress on its
\* events: while it waits for the mutex, the holder is the window thread
\* inside its critical section, which it leaves in one step of its own (a
\* pusher waiting for room holds no mutex); once it has the mutex, the swap
\* itself is one step that is always possible.
C8_SwapNeverBlocks ==
    /\ appPc = "swap_lock" =>
         \/ evMutex = "free"
         \/ evMutex = "wt" /\ wtPc = "push_loop" /\ ENABLED (PushAppend \/ PushBlock)
    /\ appPc = "swap_body" => evMutex = "app" /\ ENABLED SwapBody
    /\ wtPc \in {"push_wait", "push_lock"} => evMutex # "wt"

\* swap_events is called while the window thread waits for room.
C8_Witness ==
    /\ appPc = "swap_lock"
    /\ wtPc = "push_wait"
    /\ Len(ActiveBuf) = MAX_EVENTS_PER_SWAP

\* The push in progress has waited and a swap has since cleared the flag.
SwappedWhileBlocked ==
    /\ wtPc \in {"push_wait", "push_lock", "push_loop"}
    /\ pushArg # <<>>
    /\ pushArg[1].seq \in waited
    /\ ~ev_buf_sync

\* C9: a swap_events that finds the window thread waiting for room wakes it
\* and clears the flag, and under fair scheduling the push then returns.
C9_SwapWakesPush ==
    /\ [][(SwapReturns /\ wtPc = "push_wait") => (wtPc' = "push_lock" /\ ~ev_buf_sync')]_vars
    /\ SwappedWhileBlocked ~> (wtPc = "loop" /\ pushArg = <<>>)

\* The window thread has been woken by a swap and has not yet pushed.
C9_Witness ==
    /\ wtPc = "push_lock"
    /\ SwappedWhileBlocked
    /\ ActiveBuf = <<>>

\* C10: when CreateWindowExW returns a null handle, the spawner is not given
\* a WindowImpl and the window thread does not enter the message loop.
C10_CreateFailureIsErr ==
    hwnd = "null" =>
        /\ recv # "Ok"
        /\ appPc \notin {"idle", "swap_lock", "swap_body", "send_wait"}
        /\ wtPc \notin {"loop", "push_lock", "push_loop", "push_wait"}

\* spawn_window has returned to its caller (with a handle or an error).
SpawnReturned == appPc \notin {"start", "spawn_lock", "spawn_loop", "spawn_wait"}

\* The window thread has left the block that stores the outcome.
HasPublished == wtPc \notin {"none", "create", "publish_lock", "publish"}

C12_DestroyNeedsFlag ==
    \A t \in Spawners :
        /\ chwnd[t] = "destroyed" => cflag[t]
        /\ cpc[t] \in {"quit", "exited"} => cflag[t]

\* C13: under fair scheduling, once Drop has posted the destroy command
\* and joins, the window thread terminates and drop returns, whatever the
\* state of the window and of the event buffers when the handle is dropped.
C13_DropTerminates == (appPc = "join") ~> (wtPc = "exited" /\ appPc = "dropped")

\* C14: teardown goes flag, destruction, quit, loop exit.  The window is
\* destroyed, and a thread has left its loop, only with the flag set; the
\* step that destroys the window has stored the flag and posts the quit;
\* once the flag is set the window is gone and the quit is pending or taken.
\* The loop is left only by retrieving a quit while the flag is set; a quit
\* retrieved while the flag is false leaves the thread in the loop.  So the
\* thread has terminated only if its handle has been dropped, and after the
\* flag is set it does terminate.
C14_TeardownOrder ==
    /\ [](hwnd = "destroyed" => destroy_flag)
    /\ [](destroy_flag => hwnd = "destroyed" /\ (quitPending \/ wtPc = "exited"))
    /\ [](wtPc = "exited" => destroy_flag /\ hwnd = "destroyed" /\ appPc \in {"join", "dropped"})
    /\ [][(hwnd # "destroyed" /\ hwnd' = "destroyed") => (destroy_flag' /\ quitPending')]_vars
    /\ [][(wtPc # "exited" /\ wtPc' = "exited")
            => (wtPc = "loop" /\ quitPending /\ ~quitPending' /\ destroy_flag)]_vars
    /\ [][(wtPc = "loop" /\ quitPending /\ ~quitPending' /\ ~destroy_flag)
            => wtPc' = "loop"]_vars
    /\ destroy_flag ~> (wtPc = "exited")

\* The handle has been dropped with events still unpolled, and the window
\* thread has gone through the whole teardown.
C14_Witness ==
    /\ appPc = "dropped"
    /\ wtPc = "exited"
    /\ hwnd = "destroyed"
    /\ destroy_flag
    /\ ActiveBuf # <<>>

\* C15: when execute is about to return (SendMessageW has returned), f has
\* run exactly once and has written its result; f never runs twice, and it
\* has not run while the caller has not yet been answered by the window thread
\* (it runs inside the handler, on the window thread).
C15_ExecuteRunsOnce ==
    /\ fRuns <= 1
    /\ appPc = "exec_ret" => fRuns = 1 /\ result = "written" /\ fOpt = "None"
    /\ appPc = "send_wait" => fRuns = 0 /\ result = "uninit"

\* C16: on a window, once a set_title call has returned and no title
\* command has been issued since, the title is the one that call was given
\* (so after set_title_async("X"); set_title("Y") the title is "Y" and
\* stays "Y").
C16_SyncTitleSticks == hwnd = "valid" => \A t \in settled : title = t

\* The queued title messages that carry the buffer at address id.
Carriers(id) ==
    {i \in 1..Len(posted) : posted[i].kind = "RAMEN_WM_SETTEXT_ASYNC" /\ posted[i].b = id}

\* C19: a buffer set_title_async has allocated and forgotten is carried by
\* exactly one queued message until the window thread frees it (it is handed
\* over, not leaked, and cannot be freed twice); a queued message with a
\* pointer refers to a live buffer of the length it states (nobody has freed
\* it meanwhile); a message without a pointer states length 0.
C19_TitleBufferOwnership ==
    /\ \A id \in BufIds : heap[id].live => Cardinality(Carriers(id)) = 1
    /\ \A i \in 1..Len(posted) :
         posted[i].kind = "RAMEN_WM_SETTEXT_ASYNC" =>
            IF posted[i].b # 0
              THEN heap[posted[i].b].live /\ posted[i].a = Len(heap[posted[i].b].text)
              ELSE posted[i].a = 0

\* Threads inside the section guarded by CLASS_REGISTRY_LOCK.
InRegistry == {t \in Spawners : cpc[t] \in {"class_query", "class_register", "class_unlock"}}

\* Threads that have left it.
PastRegistry == {t \in Spawners : cpc[t] \notin {"class_lock", "class_query", "class_register"}}

IsFocus(e) == e.kind = "Focus"

\* The Focus events of a sequence of events, in order.
FocusEvents(s) == SelectSeq(s, IsFocus)

\* Focus(true), Focus(false), Focus(true), ...
Alternates(f) == \A i \in 1..Len(f) : f[i].a = i % 2

\* C20: the Focus events created, and those delivered to the poller,
\* alternate and start with Focus(true), and is_focused is the value of the
\* last one created; a step that changes is_focused or creates a Focus event
\* is a WM_SETFOCUS or WM_KILLFOCUS step, it does both, and the one event it
\* creates carries the new is_focused; a WM_ACTIVATE or WM_ACTIVATEAPP step
\* creates no event and leaves is_focused and the buffers as they are.
C20_FocusOnlyFromFocusMessages ==
    /\ [](/\ Alternates(FocusEvents(Created))
          /\ Alternates(FocusEvents(delivered))
          /\ is_focused = (Len(FocusEvents(Created)) % 2 = 1))
    /\ [][/\ (is_focused' # is_focused \/ FocusEvents(Created)' # FocusEvents(Created)) =>
               /\ WM_SETFOCUS \/ WM_KILLFOCUS
               /\ is_focused' # is_focused
               /\ Created' = Created \o << Ev(nextSeq + 1, "Focus", BoolInt(is_focused'), 0) >>
          /\ (WM_ACTIVATE \/ WM_ACTIVATEAPP) =>
               UNCHANGED <<is_focused, nextSeq, pushArg, pushedLog, bufVars>>]_vars

\* Activation messages have been handled, and the poller has been given
\* Focus(true) and then Focus(false).
C20_Witness ==
    /\ activated
    /\ Len(FocusEvents(delivered)) >= 2
    /\ ~is_focused

\* The fields of WindowImplData other than the event double-buffer and the
\* destroy flag.
CachedFields == <<style, current_dpi, client_area_size, close_reason, cursor,
                  is_focused, is_maximized, is_minimized>>

\* A step of the thread that owns the handle: spawn_window and the handle
\* operations.
HandleStep ==
    \/ SpawnThread \/ SpawnLock \/ SpawnTake \/ SpawnWait \/ SpawnSpuriousWake
    \/ SetCursor \/ SetCursorAsync \/ SetResizable \/ SetResizableAsync

\* A step of an arm of window_proc that writes a cached field (PushAppend:
\* the end of the arm that called push_events).
WindowProcWrite ==
    \/ WM_SETFOCUS \/ WM_KILLFOCUS \/ WM_SIZE \/ WM_SYSCOMMAND \/ WM_CLOSE
    \/ RAMEN_WM_SETCURSOR \/ RAMEN_WM_SETTHICKFRAME \/ PushAppend

SizeArmEvents == {"Maximize", "Minimize"}

\* C21: no Resize event created (pushed, or in the push in progress) has a
\* width or height of zero or less; the batch a WM_SIZE arm pushes holds
\* Maximize and Minimize events only, whatever the reason, so a size
\* notification with reason SIZE_MINIMIZED enqueues no Resize event.
C21_NoZeroResize ==
    /\ \A i \in 1..Len(Created) :
         Created[i].kind = "Resize" => Created[i].a > 0 /\ Created[i].b > 0
    /\ wtMsg.kind = "WM_SIZE" =>
         \A i \in 1..Len(pushArg) : pushArg[i].kind \in SizeArmEvents

\* A notification with reason SIZE_MINIMIZED is pushing its Minimize(true),
\* after a Resize has been pushed.
C21_Witness ==
    /\ wtMsg.kind = "WM_SIZE"
    /\ is_minimized
    /\ \E i \in 1..Len(pushArg) : pushArg[i].kind = "Minimize" /\ pushArg[i].a = 1
    /\ \E i \in 1..Len(pushedLog) : pushedLog[i].kind = "Resize"

\* The variant inner_size() reports.
InnerSizeVariant(logical) == IF logical THEN "Logical" ELSE "Physical"

\* C22: when inner_size returns, the size it returns is Logical exactly if
\* the size most recently supplied (to the builder or to set_inner_size)
\* was Logical, and the scale it returns is current_dpi / 96.
C22_InnerSizeFollowsSupplied ==
    appPc = "size_ret" =>
        /\ out_size.v = supplied
        /\ out_scale = Scale(current_dpi)

\* The push in progress has waited, and the events created before it have
\* not all been exposed to the poller: no swap_events has completed since
\* it blocked (they were in the write buffer then, and only a swap exposes).
BlockedUnswapped ==
    /\ wtPc \in {"push_wait", "push_lock", "push_loop"}
    /\ pushArg # <<>>
    /\ pushArg[1].seq \in waited
    /\ Len(delivered) < pushArg[1].seq - 1

\* C23: while no swap_events has completed since the push blocked, the
\* push cannot go on: the flag is still set and the batch still does not
\* fit, so after a wakeup the loop waits again; the push leaves that state
\* only in the step in which a swap_events returns; and a push that has
\* waited returns only when every earlier event has been exposed.
C23_OnlySwapUnblocks ==
    /\ [](BlockedUnswapped => ev_buf_sync /\ ~FixedVec_fits(ActiveBuf, pushArg))
    /\ [][(BlockedUnswapped /\ ~BlockedUnswapped') => SwapReturns]_vars
    /\ [][(wtPc = "push_loop" /\ wtPc' = "loop" /\ pushArg # <<>> /\ pushArg[1].seq \in waited)
            => Len(delivered) = pushArg[1].seq - 1]_vars

\* The window thread has been woken without a swap and is about to test
\* the loop condition again.
C23_Witness ==
    /\ BlockedUnswapped
    /\ wtPc = "push_loop"
    /\ appPc = "idle"

\* A push_events call is in progress that has waited at least once.
PushHasWaited ==
    /\ wtPc \in {"push_wait", "push_lock", "push_loop"}
    /\ pushArg # <<>>
    /\ pushArg[1].seq \in waited

\* C24: the window thread waits on ev_buf_ping only with the flag set; the
\* flag is set only while a push_events call that has waited is in
\* progress (in the wait, or woken and re-testing); a swap_events that
\* finds the flag set clears it and wakes the waiting thread, and one that
\* finds it clear leaves the flag and the window thread as they are.
C24_NoLostWakeup ==
    /\ [](wtPc = "push_wait" => ev_buf_sync)
    /\ [](ev_buf_sync => PushHasWaited)
    /\ [][SwapReturns =>
            IF ev_buf_sync
              THEN /\ ~ev_buf_sync'
                   /\ wtPc' # "push_wait"
                   /\ wtPc = "push_wait" => wtPc' = "push_lock"
              ELSE /\ ~ev_buf_sync'
                   /\ wtPc' = wtPc]_vars

\* swap_events is about to find the flag set by the waiting window thread.
C24_Witness ==
    /\ wtPc = "push_wait"
    /\ ev_buf_sync
    /\ appPc = "swap_body"

\* C25: when swap_events returns, the buffer pushes now go to is empty; so
\* once a swap has completed after a push blocked (every earlier event has
\* been exposed), the write buffer is empty, the flag is clear and the
\* batch fits: the push goes on at its next test of the loop condition,
\* whether or not further swaps follow.
C25_OneSwapSuffices ==
    /\ [][SwapReturns => ActiveBuf' = <<>>]_vars
    /\ []((PushHasWaited /\ ~BlockedUnswapped) =>
            /\ ActiveBuf = <<>>
            /\ Len(pushArg) <= MAX_EVENTS_PER_SWAP
            /\ ~PushMustWait)

\* A batch of two events has waited behind a non-empty buffer, one swap has
\* completed, and the window thread is about to test the condition again.
C25_Witness ==
    /\ PushHasWaited
    /\ ~BlockedUnswapped
    /\ wtPc = "push_loop"
    /\ Len(pushArg) = 2
    /\ delivered # <<>>

\* The events of slice g lie next to one another, in order, in batch.
Contiguous(g, batch) ==
    \E k \in 0..(Len(batch) - Len(g)) : \A i \in 1..Len(g) : batch[k + i] = g[i]

\* No event of slice g is in batch.
Absent(g, batch) == \A i \in 1..Len(g), j \in 1..Len(batch) : g[i] # batch[j]

\* C26: the slice of one push_events call is never split: the batch a swap
\* exposes, the batches exposed before it and the contents of each buffer
\* hold either none of its events or all of them, next to one another and
\* in order; and no event of a call still in progress is in a buffer.
C26_BatchAtomic ==
    /\ \A c \in 1..Len(pushCalls) :
         \A batch \in {view, ev_buf_primary, ev_buf_secondary}
                       \cup {firstBatches[n] : n \in 1..Len(firstBatches)} :
            Absent(pushCalls[c], batch) \/ Contiguous(pushCalls[c], batch)
    /\ \A batch \in {view, ev_buf_primary, ev_buf_secondary} : Absent(pushArg, batch)

\* A swap has exposed the two events of one size notification after an
\* earlier swap exposed another event.
C26_Witness ==
    /\ \E c \in 1..Len(pushCalls) :
         /\ Len(pushCalls[c]) = 2
         /\ Contiguous(pushCalls[c], view)
    /\ Len(delivered) > Len(view)
    /\ waited # {}

\* The events of kind k in the stream s, in order.
OfKind(s, k) == SelectSeq(s, LAMBDA e : e.kind = k)

\* No two successive events of the stream carry the same value.
Toggles(s) == \A i \in 1..(Len(s) - 1) : s[i].a # s[i + 1].a

\* C27: in the stream delivered to the application two Maximize events
\* with the same value are separated by one with the opposite value,
\* likewise for Minimize, and is_maximized and is_minimized are never both
\* true.
C27_MaxMinOnlyOnChange ==
    /\ Toggles(OfKind(delivered, "Maximize"))
    /\ Toggles(OfKind(delivered, "Minimize"))
    /\ ~(is_maximized /\ is_minimized)

\* The step in which the WM_CLOSE arm runs up to its push_event call.
CloseArm == pushArg = <<>> /\ pushArg' # <<>> /\ wtMsg'.kind = "WM_CLOSE"

\* The push_events call of the WM_CLOSE arm returns.
CloseArmReturns == wtMsg.kind = "WM_CLOSE" /\ wtMsg'.kind # "WM_CLOSE"

CloseRequests(s) == OfKind(s, "CloseRequest")

\* C28: the WM_CLOSE arm leaves the window and the destroy flag as they
\* are, from its entry to the return of its push; it creates exactly one
\* event, CloseRequest(reason), with the pending reason (SystemMenu inside
\* the system-menu close command, KeyboardShortcut inside Alt+F4) or
\* Unknown if none is pending, and leaves no reason pending: between
\* messages none is pending, so a close request that arrives by itself
\* reports Unknown.
C28_CloseOnlyEnqueues ==
    /\ [][CloseArm =>
            /\ hwnd' = hwnd /\ destroy_flag' = destroy_flag /\ quitPending' = quitPending
            /\ Len(pushArg') = 1
            /\ pushArg'[1].kind = "CloseRequest"
            /\ pushArg'[1].a = CloseReasonCode(
                   CASE wtPc = "def_syscommand" -> "SystemMenu"
                     [] wtPc = "syskey_send" -> "KeyboardShortcut"
                     [] OTHER -> "Unknown")
            /\ close_reason' = "None"]_vars
    /\ [](wtMsg.kind = "WM_CLOSE" => hwnd = "valid" /\ ~destroy_flag /\ close_reason = "None")
    /\ [][CloseArmReturns =>
            /\ hwnd' = hwnd /\ destroy_flag' = destroy_flag /\ wtPc' = "loop"
            /\ Len(CloseRequests(pushedLog')) = Len(CloseRequests(pushedLog)) + 1]_vars
    /\ [](wtPc = "loop" => close_reason = "None")

\* After a system-menu close and an Alt+F4, a close request that came by
\* itself has been delivered with reason Unknown; the window lives on.
C28_Witness ==
    /\ Len(delivered) = 3
    /\ \A i \in 1..3 : delivered[i].kind = "CloseRequest"
    /\ delivered[3].a = CloseReasonCode("Unknown")
    /\ {delivered[1].a, delivered[2].a}
          = {CloseReasonCode("SystemMenu"), CloseReasonCode("KeyboardShortcut")}
    /\ hwnd = "valid" /\ ~destroy_flag

\* The CloseRequest(KeyboardShortcut) events created so far.
ShortcutRequests ==
    SelectSeq(pushedLog \o pushArg,
              LAMBDA e : e.kind = "CloseRequest" /\ e.a = CloseReasonCode("KeyboardShortcut"))

\* C29: each Alt+F4 keystroke, key-down and key-up, creates exactly one
\* CloseRequest(KeyboardShortcut): there are never more of them than
\* keystrokes, and between messages there is one for each keystroke.
C29_OneRequestPerKeystroke ==
    /\ Len(ShortcutRequests) <= keystrokes
    /\ wtPc = "loop" => Len(ShortcutRequests) = keystrokes

\* C30: the Size of a Resize event being pushed has the variant that
\* inner_size() reports at that moment, Logical if is_dpi_logical and
\* Physical if not.
C30_ResizeFollowsMode ==
    \A i \in 1..Len(pushArg) :
       pushArg[i].kind = "Resize" => pushArg[i].v = InnerSizeVariant(is_dpi_logical)

\* C31: when inner_size returns after a set_inner_size(Physical(w, h)) with
\* w > 0 and h > 0 that nothing has followed, it returns Physical(w, h),
\* and whenever such a request stands the cached client size is (w, h).
C31_PhysicalRoundTrip ==
    (requestedSize.v = "Physical" /\ requestedSize.w > 0 /\ requestedSize.h > 0) =>
        /\ client_area_size = <<requestedSize.w, requestedSize.h>>
        /\ appPc = "size_ret" => out_size = requestedSize

\* A step in which the arm of a set_resizable or set_controls command
\* changes the cached style (and so calls update_window_style).
StyleCommandApplied ==
    /\ wtPc = "loop"
    /\ style'.resizable # style.resizable \/ style'.controls # style.controls

\* C32: once a set_visible(v) has been applied, the native visible bit is
\* v and stays v through every later set_resizable / set_controls command:
\* the style such a command writes has the visible bit the window had, and
\* the cached style.visible is the native bit whenever the window exists.
C32_VisibleSurvivesStyle ==
    /\ [](shown # None => /\ IsVisible(gwl_style) = shown[1].visible
                          /\ style.visible = shown[1].visible)
    /\ [](hwnd = "valid" => style.visible = IsVisible(gwl_style))
    /\ [][StyleCommandApplied =>
            /\ gwl_style' = style_as_win32(style')
            /\ IsVisible(gwl_style') = IsVisible(gwl_style)]_vars

\* The window was hidden by set_visible(false), two style commands have
\* been applied since (it is no longer resizable and has no controls), and
\* it is still hidden.
C32_Witness ==
    /\ shown = Some([visible |-> FALSE, updates |-> 2])
    /\ ~IsVisible(gwl_style)
    /\ ~style.resizable
    /\ style.controls = None

\* C33: whenever the window exists and has controls, the close button of
\* its system menu is enabled exactly if controls.close is set.
C33_CloseButtonFollowsControls ==
    (hwnd = "valid" /\ style.controls # None) => close_button = style.controls[1].close

\* A RAMEN_WM_DROP message is in the window's queue.
DropPosted == \E i \in 1..Len(posted) : posted[i].kind = "RAMEN_WM_DROP"

\* The step of the RAMEN_WM_DROP arm: the window thread takes the message
\* out of the queue of a live window.
DropArm ==
    /\ Retrieving("RAMEN_WM_DROP")
    /\ hwnd = "valid"
    /\ Len(posted') < Len(posted)

\* C34: the destroy flag is false when the window is created; it goes from
\* false to true only in the step of the RAMEN_WM_DROP arm, which does set
\* it; that message is in the queue only after Drop has posted it; once
\* true the flag stays true in every later state.
C34_DestroyFlagMonotone ==
    /\ ~destroy_flag
    /\ [][destroy_flag => destroy_flag']_vars
    /\ [][(~destroy_flag /\ destroy_flag') => DropArm]_vars
    /\ [][DropArm => destroy_flag']_vars
    /\ [](DropPosted => appPc = "join")
    /\ [][(~DropPosted /\ DropPosted') => (appPc = "idle" /\ appPc' = "join")]_vars

\* The flag has been set by the handler, after close requests were made
\* and answered with events only, and the thread has since left its loop.
C34_Witness ==
    /\ destroy_flag
    /\ wtPc = "exited"
    /\ CloseRequests(pushedLog) # <<>>

\* C35: the word set_controls(c) sends decodes in the RAMEN_WM_SETCONTROLS
\* arm to c, for None and for each of the 8 Controls values, so that when
\* the arm answers a set_controls(c) the cached controls are c;
\* from_bits(to_bits(x)) = x for all 8 values, and to_bits never yields
\* the all-ones word that stands for None.
C35_ControlsRoundTrip ==
    /\ [](\A o \in ControlsOptions : ControlsOfWord(ControlsWord(o)) = o)
    /\ [](\A x \in AllControls :
            /\ Controls_from_bits(Controls_to_bits(x)) = x
            /\ Controls_to_bits(x) # AllOnes)
    /\ [][(sentMsg = "RAMEN_WM_SETCONTROLS" /\ sentMsg' = "none")
            => (ControlsOfWord(sentW) = sentControls /\ style'.controls = sentControls)]_vars

\* A set_controls with minimize only has been answered by the arm: the
\* cached controls, the native style and the close button all show it.
C35_Witness ==
    /\ sentMsg = "none"
    /\ appPc = "idle"
    /\ sentControls = Some(Controls(TRUE, FALSE, FALSE))
    /\ style.controls = sentControls
    /\ "WS_MINIMIZEBOX" \in gwl_style
    /\ "WS_MAXIMIZEBOX" \notin gwl_style
    /\ ~close_button

\* The fields of the key message in lastInput, as they were drawn.
DrawnKey ==
    [vk |-> lastInput.drawn[1], scancode |-> lastInput.drawn[2],
     extended |-> lastInput.drawn[3], alt |-> lastInput.drawn[4],
     previous |-> lastInput.drawn[5], transition |-> lastInput.drawn[6]]

KeyMessages == {"WM_KEY", "WM_SYSKEY"}

\* C36: the event of a key message is KeyboardUp if the transition bit 31
\* is set, else KeyboardRepeat if the previous-state bit 30 is set, else
\* KeyboardDown; its key is the right shift key if the message is for the
\* generic shift key with scan code 54, the right control or Alt key if it
\* is for the generic control or Alt key with the extended bit 24 set,
\* and the left key otherwise; a system-key message for a key other than
\* F10 with the Alt bit 29 clear that is not a release yields no event.
\* The event is what the arm pushes, and nothing is pushed without one.
C36_KeyClassification ==
    /\ []((lastInput.kind \in KeyMessages /\ lastInput.event # None) =>
            LET k == DrawnKey
                e == lastInput.event[1]
            IN  /\ e[1] = IF k.transition THEN "KeyboardUp"
                          ELSE IF k.previous THEN "KeyboardRepeat" ELSE "KeyboardDown"
                /\ k.vk = VK_SHIFT =>
                     e[2] = IF k.scancode = RightShiftScan THEN "RShift" ELSE "LShift"
                /\ k.vk = VK_CONTROL => e[2] = IF k.extended THEN "RControl" ELSE "LControl"
                /\ k.vk = VK_MENU => e[2] = IF k.extended THEN "RAlt" ELSE "LAlt")
    /\ []((/\ lastInput.kind = "WM_SYSKEY"
           /\ DrawnKey.vk # VK_F10 /\ ~DrawnKey.alt /\ ~DrawnKey.transition)
            => lastInput.event = None)
    /\ [][(inputCount' # inputCount /\ lastInput'.kind \in KeyMessages) =>
            IF lastInput'.event = None
              THEN UNCHANGED <<pushArg, nextSeq, wtPc>>
              ELSE pushArg' = Stamp(nextSeq + 1, <<lastInput'.event[1]>>)]_vars
    /\ [][(pushedLog' # pushedLog /\ lastInput.kind \in KeyMessages) =>
            /\ lastInput.event # None
            /\ pushedLog' = pushedLog \o Stamp(Len(pushedLog) + 1, <<lastInput.event[1]>>)]_vars

\* A repeat of the right shift key has been pushed, then the release of
\* the right Alt key, which came as a system-key message without the Alt bit.
C36_Witness ==
    /\ Len(pushedLog) = 2
    /\ pushedLog[1].kind = "KeyboardRepeat" /\ pushedLog[1].a = "RShift"
    /\ pushedLog[2].kind = "KeyboardUp" /\ pushedLog[2].a = "RAlt"
    /\ lastInput.kind = "WM_SYSKEY"
    /\ ~DrawnKey.alt

MouseMessages == {"WM_MOUSEMOVE", "WM_XBUTTONDOWN", "WM_XBUTTONUP", "WM_MOUSEWHEEL"}

\* C37: a mouse-move message yields a MouseMove event, with its
\* coordinates, exactly when 0 <= x < cached client width and
\* 0 <= y < cached client height at the time it is handled; a wheel
\* message yields a MouseWheel event with its delta exactly when the delta
\* is not zero, so no MouseWheel event carries zero; an X-button message
\* yields MouseDown / MouseUp of Mouse4 for sub-code 1, of Mouse5 for
\* sub-code 2 and no event for any other sub-code.  The event is what the
\* arm pushes, and nothing is pushed without one.
C37_MouseFilters ==
    /\ [][(inputCount' # inputCount /\ lastInput'.kind = "WM_MOUSEMOVE") =>
            LET x == lastInput'.drawn[1]
                y == lastInput'.drawn[2]
                inside == /\ 0 <= x /\ x < client_area_size[1]
                          /\ 0 <= y /\ y < client_area_size[2]
            IN  lastInput'.event =
                  IF inside
                    THEN Some(<<"MouseMove", x, y,
                                IF is_dpi_logical THEN "Logical" ELSE "Physical">>)
                    ELSE None]_vars
    /\ [](lastInput.kind = "WM_MOUSEWHEEL" =>
            lastInput.event = IF lastInput.drawn[1] # 0
                                THEN Some(<<"MouseWheel", lastInput.drawn[1], 0>>)
                                ELSE None)
    /\ [](\A i \in 1..Len(Created) :
            /\ Created[i].kind = "MouseWheel" => Created[i].a # 0
            /\ Created[i].kind = "MouseMove" => (Created[i].a >= 0 /\ Created[i].b >= 0))
    /\ [](lastInput.kind \in {"WM_XBUTTONDOWN", "WM_XBUTTONUP"} =>
            LET event == IF lastInput.kind = "WM_XBUTTONDOWN" THEN "MouseDown" ELSE "MouseUp"
                code == lastInput.drawn[1]
            IN  lastInput.event =
                  CASE code = 1 -> Some(<<event, MouseButton("Mouse4"), 0>>)
                    [] code = 2 -> Some(<<event, MouseButton("Mouse5"), 0>>)
                    [] OTHER -> None)
    /\ [][(inputCount' # inputCount /\ lastInput'.kind \in MouseMessages) =>
            IF lastInput'.event = None
              THEN UNCHANGED <<pushArg, nextSeq, wtPc>>
              ELSE pushArg' = Stamp(nextSeq + 1, <<lastInput'.event[1]>>)]_vars
    /\ [][(pushedLog' # pushedLog /\ wtMsg.kind \in MouseMessages) =>
            /\ lastInput.event # None
            /\ pushedLog' = pushedLog \o Stamp(Len(pushedLog) + 1, <<lastInput.event[1]>>)]_vars

\* After set_inner_size made the client area 2 wide, a move to x = 1 has
\* been pushed, and then a wheel message with delta zero was dropped.
C37_Witness ==
    /\ client_area_size = <<2, 1>>
    /\ Len(pushedLog) = 2
    /\ pushedLog[2].kind = "MouseMove" /\ pushedLog[2].a = 1 /\ pushedLog[2].b = 0
    /\ lastInput.kind = "WM_MOUSEWHEEL"
    /\ lastInput.event = None
    /\ wtPc = "loop"

\* C38: whatever the number of threads calling get() on a LazyCell and
\* however they interleave, its initialiser runs at most once, and exactly
\* once by the time any get() has returned; a get() returns only when the
\* Once is complete and the pointer has been written, and what it returns
\* is the value behind that pointer, so all calls on all threads return
\* references to the same value; the pointer, once written, never changes.
C38_LazyCellOnce ==
    /\ [](\A c \in Statics : cells[c].runs <= 1)
    /\ [](\A t \in Spawners, c \in Statics :
            callers[t].got[c] # None =>
              /\ cells[c].once = "COMPLETE"
              /\ cells[c].runs = 1
              /\ cells[c].ptr # NullPtr
              /\ callers[t].got[c] = Some(cells[c].ptr))
    /\ [](\A t, u \in Spawners, c \in Statics :
            (callers[t].got[c] # None /\ callers[u].got[c] # None)
              => callers[t].got[c] = callers[u].got[c])
    /\ [][\A t \in Spawners :
            (callers[t].pc = "deref" /\ callers'[t].pc = "idle") =>
              /\ cells[callers[t].cell].once = "COMPLETE"
              /\ cells[callers[t].cell].ptr # NullPtr]_vars
    /\ [][\A c \in Statics :
            cells[c].ptr # NullPtr => cells'[c].ptr = cells[c].ptr]_vars

\* WIN32 was initialised while another thread was blocked in call_once on
\* it: the first thread's get() has returned, the second, which has its
\* reference to the class registry lock, has not yet been released.
C38_Witness ==
    \E t, u \in Spawners :
        /\ t # u
        /\ callers[t].got["WIN32"] # None
        /\ callers[u].pc = "once_wait"
        /\ callers[u].cell = "WIN32"
        /\ callers[u].got["CLASS_REGISTRY_LOCK"] # None
        /\ callers[t].got["CLASS_REGISTRY_LOCK"] = callers[u].got["CLASS_REGISTRY_LOCK"]

====
